---------------------------- MODULE Spec2Model ----------------------------
(***************************************************************************)
(* Model of the incremental ingestion and retrieval pipeline.              *)
(*                                                                         *)
(*   Part I   src/src/incremental_ingest.py : IncrementalQdrantIngester    *)
(*            (fingerprint dedup, point ids, upsert, start-up scan).       *)
(*   Part II  src/src/rag_qdrant/base_llm_manager.py, mistral_manager.py,  *)
(*            groq_manager.py : structured-response parsing.               *)
(*   Part III src/src/rag_qdrant/pipeline.py, qdrant_manager.py,           *)
(*            reranker_manager.py : RAGPipeline.search and                 *)
(*            QdrantManager.search_similar.                                *)
(*   Part IV  src/src/rag_qdrant/document_processor.py, schemas.py :       *)
(*            DocumentProcessor.process_document and create_chunks.        *)
(*   Part V   src/src/rag_qdrant/pipeline.py, qdrant_manager.py :          *)
(*            RAGPipeline.ingest_document and the collection operations.   *)
(*   Part VI  src/src/incremental_ingest.py, rag_qdrant/qdrant_manager.py :*)
(*            the Qdrant clients constructed in one process.               *)
(*                                                                         *)
(* Every part has its own specification; the variables of the other parts  *)
(* keep their initial values under it.                                     *)
(***************************************************************************)
EXTENDS Integers, Sequences, FiniteSets, TLC

VARIABLES
    \* ---- Part I : one OS process running the incremental ingester ----
    store,             \* points persisted in the Qdrant collection (on disk)
    processed_hashes,  \* IncrementalQdrantIngester.processed_hashes
    pyhash,            \* this process's salted builtin hash(), on the id strings
    loaded_ok,         \* _load_processed_hashes ended without exception
    ingest_lock,       \* _ingest_queue_lock: "free" or the holding thread
    pc,                \* per thread: "idle" or "loop" (inside the with block)
    call,              \* per thread: locals of process_document_incremental
    returned,          \* the dict the most recent call returned, with what it did
    ingested,          \* files a call of this process has returned "success" for
    \* ---- Part II : the LLM managers ----
    available,         \* the attribute `available` of each manager, set at construction
    llm_last,          \* the most recent parser / generate_response call and its outcome
    \* ---- Part III : RAGPipeline ----
    collection,        \* the points of the pipeline's Qdrant collection
    response,          \* the RAGResponse most recently returned or built
    search_log,        \* what the most recent RAGPipeline.search was given and did
    similar,           \* the most recent direct QdrantManager.search_similar call
    searches,          \* how many times RAGPipeline.search has been called
    \* ---- Part IV : DocumentProcessor ----
    proc,              \* the locals of the running process_document call
    \* ---- Part V : RAGPipeline over its QdrantManager ----
    qdrant,            \* the collection of the pipeline in the local Qdrant store
    chunk_id_hash,     \* this process's salted builtin hash(), on the chunk ids
    outcome,           \* the most recent public operation and what it returned
    calls,             \* how many public operations have been called
    \* ---- Part VI : the Qdrant clients of one process ----
    global_qdrant_client,  \* _global_qdrant_client: NoClient or the client
    global_qdrant_lock,    \* _global_qdrant_lock: "free" or the holding thread
    consumer,          \* per thread: where it is and the client it obtained
    clients            \* the clients constructed and closed in the process

ingestVars == <<store, processed_hashes, pyhash, loaded_ok, ingest_lock,
                pc, call, returned, ingested>>

llmVars == <<available, llm_last>>

searchVars == <<collection, response, search_log, similar, searches>>

chunkVars == <<proc>>

storeVars == <<qdrant, chunk_id_hash, outcome, calls>>

clientVars == <<global_qdrant_client, global_qdrant_lock, consumer, clients>>

vars == <<ingestVars, llmVars, searchVars, chunkVars, storeVars, clientVars>>

(***************************************************************************)
(* Part I.  Incremental ingestion                                          *)
(***************************************************************************)

\* Bound: Python's hash() of a str ranges over -MaxHash..MaxHash here.
MaxHash == 2

\* 2**31 - 1, the modulus of _generate_point_id.
PointIdModulus == 2147483647

\* The page size of the start-up scroll.  The source reads limit=10000 and
\* drops the next-page offset; the model keeps the single page and scales its
\* size to the model's collections.
ScrollLimit == 2

Threads == {"t1", "t2"}

NoThread == "free"

\* The PDF files of the data directory.  A file is unchanged for the whole
\* behaviour: PyPDFLoader.load and the text splitter give, for every file, the
\* same pages and the same chunks per page each time.
Files == {"empty.pdf", "rules.pdf"}

\* split_text(page.page_content) for every page of loader.load(), in order.
PageChunks(f) ==
    IF f = "rules.pdf" THEN << <<"a", "b">>, <<"c">> >> ELSE << >>

\* Path(doc_path).stem
Stem(f) == IF f = "rules.pdf" THEN "rules" ELSE "empty"

HashVals == (0 - MaxHash)..MaxHash

\* pyhash[s] before this process has hashed s.  The salt of a process fixes
\* hash(s) for every s; the model draws the value when s is first hashed and
\* keeps it until the process ends.
NotHashed == MaxHash + 1

Abs(n) == IF n < 0 THEN 0 - n ELSE n

\* hashlib.md5 of f"{content}|{source}|{page}": a digest that differs whenever
\* the signature differs.
GenerateChunkHash(content, source, page) ==
    [md5 |-> <<content, source, page>>]

\* f"{stem}_p{page}_c{chunk_idx}_{chunk_hash[:8]}"
IdString(f, page, chunk_idx, chunk_hash) ==
    <<Stem(f), page, chunk_idx, chunk_hash>>

\* The loop cursor <<p, c>>: page p (page_idx + 1) and the c-th chunk of it
\* (chunk_idx = c - 1).  EndPos stands for both loops being exhausted.
EndPos == <<0, 0>>

RECURSIVE FirstPosFrom(_, _)
FirstPosFrom(f, p) ==
    IF p > Len(PageChunks(f)) THEN EndPos
    ELSE IF Len(PageChunks(f)[p]) > 0 THEN <<p, 1>>
    ELSE FirstPosFrom(f, p + 1)

\* Loops nested the other way round: for each chunk index, every page.
NextPos_IndexThenPage(f, pos) ==
    LET PagesWith(c) == {p \in 1..Len(PageChunks(f)) : Len(PageChunks(f)[p]) >= c}
        Least(S) == CHOOSE p \in S : \A q \in S : p <= q
        later == {p \in PagesWith(pos[2]) : p > pos[1]}
    IN  IF later # {} THEN <<Least(later), pos[2]>>
        ELSE IF PagesWith(pos[2] + 1) # {}
             THEN <<Least(PagesWith(pos[2] + 1)), pos[2] + 1>>
             ELSE EndPos

\* Lines 161 and 165: the next chunk of the page or, after its last chunk,
\* the first chunk of the next page that has one.
NextPos(f, pos) ==
    IF pos[2] < Len(PageChunks(f)[pos[1]]) THEN <<pos[1], pos[2] + 1>>
    ELSE FirstPosFrom(f, pos[1] + 1)

AllPos(f) ==
    UNION {{<<p, c>> : c \in 1..Len(PageChunks(f)[p])} : p \in 1..Len(PageChunks(f))}

ChunkContent(f, pos) == PageChunks(f)[pos[1]][pos[2]]

\* metadata["chunk_hash"] of the chunk at the cursor (source = the file path).
ChunkHashAt(f, pos) == GenerateChunkHash(ChunkContent(f, pos), f, pos[1])

IdStrings ==
    UNION {{IdString(f, pos[1], pos[2] - 1, ChunkHashAt(f, pos)) : pos \in AllPos(f)}
           : f \in Files}

\* abs(hash(id_string)) % (2**31 - 1), with this process's hash().
GeneratePointId(h, f, page, chunk_idx, chunk_hash) ==
    Abs(h[IdString(f, page, chunk_idx, chunk_hash)]) % PointIdModulus

\* The values hash(s) can take in a process whose hash() is h so far.
HashChoices(h, s) == IF h[s] = NotHashed THEN HashVals ELSE {h[s]}

\* PointStruct(id, vector, payload={"content": ..., **metadata}); the vector is
\* not modelled.
Point(id, f, pos) ==
    [id          |-> id,
     content     |-> ChunkContent(f, pos),
     source      |-> f,
     page        |-> pos[1],
     chunk_index |-> pos[2] - 1,
     chunk_hash  |-> ChunkHashAt(f, pos)]

\* An upsert that persists nothing and reports no failure.
Upsert_Dropped(S, pt) == S

\* client.upsert: a point overwrites the point that has its id.
Upsert(S, pt) == {q \in S : q.id # pt.id} \cup {pt}

\* client.scroll(limit=...): the first page, in point-id order.
Scroll(S, limit) == {p \in S : Cardinality({q \in S : q.id < p.id}) < limit}

\* _load_processed_hashes without exception: the chunk_hash payloads of the
\* first scroll page.
LoadProcessedHashes(S) == {p.chunk_hash : p \in Scroll(S, ScrollLimit)}

IdleCall ==
    [file |-> "none", pos |-> EndPos, chunks_added |-> 0, chunks_skipped |-> 0,
     embed_calls |-> 0, upserts |-> 0, points_before |-> 0,
     prior_success |-> FALSE, all_stored |-> FALSE, upserted |-> << >>]

\* What a call returns: the dict (status, chunks_added, chunks_skipped,
\* total_chunks) and, for the properties, the locals of the call at its end,
\* the number of stored points then, and the cursors of the chunks the call
\* upserted, in the order of their upserts.
Returned(status, added, skipped, c, S) ==
    [status |-> status, chunks_added |-> added, chunks_skipped |-> skipped,
     total_chunks |-> added + skipped,
     file |-> c.file, embed_calls |-> c.embed_calls, upserts |-> c.upserts,
     points_before |-> c.points_before, points_after |-> Cardinality(S),
     prior_success |-> c.prior_success, all_stored |-> c.all_stored,
     upserted |-> c.upserted]

NothingReturned == Returned("none", 0, 0, IdleCall, {})

\* Every chunk of f has a point carrying its fingerprint in the store.
AllStored(S, f) ==
    \A pos \in AllPos(f) : \E p \in S : p.chunk_hash = ChunkHashAt(f, pos)

InitIngest ==
    /\ store = {}
    /\ processed_hashes = {}
    /\ pyhash = [s \in IdStrings |-> NotHashed]
    /\ loaded_ok = TRUE
    /\ ingest_lock = NoThread
    /\ pc = [t \in Threads |-> "idle"]
    /\ call = [t \in Threads |-> IdleCall]
    /\ returned = NothingReturned
    /\ ingested = {}

\* The locals at the top of the try block.
NewCall(f) ==
    [file |-> f, pos |-> FirstPosFrom(f, 1), chunks_added |-> 0,
     chunks_skipped |-> 0, embed_calls |-> 0, upserts |-> 0,
     points_before |-> Cardinality(store),
     prior_success |-> f \in ingested,
     all_stored |-> AllStored(store, f),
     upserted |-> << >>]

\* A with statement that enters whether or not the lock is held.
CanAcquire_Unlocked(lock) == TRUE

\* Line 131, with _ingest_queue_lock: the block is entered when no thread
\* holds the lock.
CanAcquire(lock) == lock = NoThread

\* process_document_incremental, lines 131-143: the lock is taken, the loader
\* finds no page, {"status": "skipped", "reason": "no_pages"} is returned and
\* the with block releases the lock.
BeginNoPages(t, f) ==
    /\ pc[t] = "idle"
    /\ CanAcquire(ingest_lock)
    /\ PageChunks(f) = << >>
    /\ returned' = Returned("skipped", 0, 0, NewCall(f), store)
    /\ UNCHANGED <<store, processed_hashes, pyhash, loaded_ok, ingest_lock,
                   pc, call, ingested>>

\* Lines 131-159: the lock is taken, the pages are loaded and the counters set.
Begin(t, f) ==
    /\ pc[t] = "idle"
    /\ CanAcquire(ingest_lock)
    /\ PageChunks(f) # << >>
    /\ ingest_lock' = t
    /\ call' = [call EXCEPT ![t] = NewCall(f)]
    /\ pc' = [pc EXCEPT ![t] = "loop"]
    /\ UNCHANGED <<store, processed_hashes, pyhash, loaded_ok, returned, ingested>>

\* A loop that never marks the fingerprint as processed.
MarkProcessed_Forgotten(hashes, h) == hashes

\* Line 208: self.processed_hashes.add(chunk_hash)
MarkProcessed(hashes, h) == hashes \cup {h}

AtChunk(t) == pc[t] = "loop" /\ call[t].pos # EndPos

Advance(c) == [c EXCEPT !.pos = NextPos(c.file, c.pos)]

\* Lines 181-183: the fingerprint is in the dedup set.
SkipChunk(t) ==
    /\ AtChunk(t)
    /\ ChunkHashAt(call[t].file, call[t].pos) \in processed_hashes
    /\ call' = [call EXCEPT ![t] =
                  Advance([@ EXCEPT !.chunks_skipped = @ + 1])]
    /\ UNCHANGED <<store, processed_hashes, pyhash, loaded_ok, ingest_lock,
                   pc, returned, ingested>>

\* The call of thread t leaves the with block with the dict r.
Leave(t, r) ==
    /\ returned' = r
    /\ pc' = [pc EXCEPT ![t] = "idle"]
    /\ call' = [call EXCEPT ![t] = IdleCall]
    /\ ingest_lock' = NoThread

\* Lines 222-228, the except branch: {"status": "error", "chunks_added": 0}.
ErrorResult(c, S) == Returned("error", 0, 0, c, S)

\* Line 189: embeddings.embed_query raises.
EmbedFails(t) ==
    /\ AtChunk(t)
    /\ ChunkHashAt(call[t].file, call[t].pos) \notin processed_hashes
    /\ Leave(t, ErrorResult([call[t] EXCEPT !.embed_calls = @ + 1], store))
    /\ UNCHANGED <<store, processed_hashes, pyhash, loaded_ok, ingested>>

\* Lines 189-205: the embedding is made, client.upsert raises.
UpsertFails(t) ==
    /\ AtChunk(t)
    /\ ChunkHashAt(call[t].file, call[t].pos) \notin processed_hashes
    /\ Leave(t, ErrorResult([call[t] EXCEPT !.embed_calls = @ + 1,
                                            !.upserts = @ + 1], store))
    /\ UNCHANGED <<store, processed_hashes, pyhash, loaded_ok, ingested>>

\* Lines 186-209: point id, embedding, upsert, then the fingerprint is marked.
UpsertChunk(t) ==
    /\ AtChunk(t)
    /\ LET f   == call[t].file
           pos == call[t].pos
           h   == ChunkHashAt(f, pos)
           s   == IdString(f, pos[1], pos[2] - 1, h)
       IN /\ h \notin processed_hashes
          /\ \E v \in HashChoices(pyhash, s) :
                /\ pyhash' = [pyhash EXCEPT ![s] = v]
                /\ store' = Upsert(store,
                       Point(GeneratePointId(pyhash', f, pos[1], pos[2] - 1, h), f, pos))
          /\ processed_hashes' = MarkProcessed(processed_hashes, h)
          /\ call' = [call EXCEPT ![t] =
                        Advance([@ EXCEPT !.embed_calls = @ + 1,
                                          !.upserts = @ + 1,
                                          !.chunks_added = @ + 1,
                                          !.upserted = Append(@, pos)])]
    /\ UNCHANGED <<loaded_ok, ingest_lock, pc, returned, ingested>>

\* Lines 211-220: both loops are over; the success dict is returned.
Finish(t) ==
    /\ pc[t] = "loop"
    /\ call[t].pos = EndPos
    /\ Leave(t, Returned("success", call[t].chunks_added, call[t].chunks_skipped,
                         call[t], store))
    /\ ingested' = ingested \cup {call[t].file}
    /\ UNCHANGED <<store, processed_hashes, pyhash, loaded_ok>>

\* The process ends (at any point) and a new one starts: hash() gets a new
\* salt, the threads are gone, __init__ runs _load_processed_hashes.  The
\* collection on disk is kept.
FreshProcess ==
    /\ pyhash' = [s \in IdStrings |-> NotHashed]
    /\ ingest_lock' = NoThread
    /\ pc' = [t \in Threads |-> "idle"]
    /\ call' = [t \in Threads |-> IdleCall]
    /\ returned' = NothingReturned
    /\ ingested' = {}
    /\ UNCHANGED store

\* Lines 76-94.
Restart ==
    /\ FreshProcess
    /\ processed_hashes' = LoadProcessedHashes(store)
    /\ loaded_ok' = TRUE

\* Lines 96-98: the scan raises; the set is left empty.
RestartLoadFails ==
    /\ FreshProcess
    /\ processed_hashes' = {}
    /\ loaded_ok' = FALSE

notIngestVars == <<llmVars, searchVars, chunkVars, storeVars, clientVars>>

NextIngest ==
    \/ \E t \in Threads, f \in Files : BeginNoPages(t, f) /\ UNCHANGED notIngestVars
    \/ \E t \in Threads, f \in Files : Begin(t, f) /\ UNCHANGED notIngestVars
    \/ \E t \in Threads : SkipChunk(t) /\ UNCHANGED notIngestVars
    \/ \E t \in Threads : EmbedFails(t) /\ UNCHANGED notIngestVars
    \/ \E t \in Threads : UpsertFails(t) /\ UNCHANGED notIngestVars
    \/ \E t \in Threads : UpsertChunk(t) /\ UNCHANGED notIngestVars
    \/ \E t \in Threads : Finish(t) /\ UNCHANGED notIngestVars
    \/ Restart /\ UNCHANGED notIngestVars
    \/ RestartLoadFails /\ UNCHANGED notIngestVars


(***************************************************************************)
(* Part I, properties                                                      *)
(***************************************************************************)

HasReturned == returned.status # "none"

NumChunks(f) == Cardinality(AllPos(f))

\* The id string of a stored point, rebuilt from its payload.
IdStringOf(p) == IdString(p.source, p.page, p.chunk_index, p.chunk_hash)

\* C1: a call of process_document_incremental on a file that an earlier call
\* of the same process has ingested with success makes no embedding call and
\* no upsert, returns success with chunks_added = 0 and every chunk of the file
\* counted as skipped, and leaves the number of stored points as it was.
C1_IdempotentIngestion ==
    (HasReturned /\ returned.prior_success) =>
        /\ returned.status \in {"success", "skipped"}
        /\ returned.embed_calls = 0
        /\ returned.upserts = 0
        /\ returned.chunks_added = 0
        /\ returned.chunks_skipped = NumChunks(returned.file)
        /\ returned.points_after = returned.points_before

\* C1, witness: the second call on rules.pdf has returned, all chunks skipped.
C1_Witness ==
    /\ returned.prior_success
    /\ returned.file = "rules.pdf"
    /\ returned.status = "success"
    /\ returned.chunks_skipped = 3
    /\ returned.points_before > 0

\* C2: the point identity derived for a fixed (doc, page, chunk index,
\* content) is the same in every run and in every process: whenever the
\* running process derives the id of a chunk that a point of the store was
\* made from, it gets the id that point is stored under.
C2_StablePointIdentity ==
    \A p \in store :
        pyhash[IdStringOf(p)] # NotHashed =>
            GeneratePointId(pyhash, p.source, p.page, p.chunk_index, p.chunk_hash) = p.id

\* C3: after a restart whose start-up scan of the chunk_hash payloads ended
\* without error, a call on a file whose chunks are all stored is a no-op: no
\* embedding call, no upsert, and no more stored points than before.
C3_RestartReingestNoOp ==
    (HasReturned /\ loaded_ok /\ returned.all_stored) =>
        /\ returned.embed_calls = 0
        /\ returned.upserts = 0
        /\ returned.points_after <= returned.points_before

(***************************************************************************)
(* Part II.  Structured-response parsing of the LLM managers               *)
(*                                                                         *)
(* A completion is a sequence of tokens: the outer braces of a JSON        *)
(* object, the members between them (a body, named; BodyOf gives its       *)
(* members), a JSON scalar, a code fence, a line break, or prose that holds *)
(* no brace, no quote and no backtick.  The braces and quotes inside a     *)
(* body lie between the outer braces.                                      *)
(***************************************************************************)

LB == "{"
RB == "}"
FENCE == "FENCE"
NL == "NL"
\* A blank.
SP == "SP"
\* A backslash put before each quote of the token that follows it.
ESC == "ESC"
TXT == "txt"
\* The JSON document "answer citations claims": one string, naming the keys.
STRTOK == "STR(answer citations claims)"
\* The JSON document 42.
NUMTOK == "42"

\* Python / JSON values.
Str(segs) == [t |-> "str", v |-> segs]
List(items) == [t |-> "list", v |-> items]
IntVal == [t |-> "int", v |-> << >>]
Absent == [t |-> "absent", v |-> << >>]

\* no_info_phrases, base_llm_manager.py lines 146-164.
NoInfoPhrases ==
    {"il n'y a pas d'information", "aucune information", "pas d'information sur",
     "ne contient pas d'information", "n'est pas mentionné", "pas de mention",
     "contexte ne contient pas", "documents ne contiennent pas",
     "je ne trouve pas d'information", "il n'existe pas d'indication",
     "aucune indication", "pas d'indication sur", "ne présente pas d'information",
     "n'indique pas", "pas précisé", "non mentionné", "absent des documents"}

\* str.lower() on the segments an answer is made of.
LowerSeg(x) ==
    CASE x = "Aucune information" -> "aucune information"
      [] x = "N'EST PAS MENTIONNÉ" -> "n'est pas mentionné"
      [] OTHER -> x

Lower(segs) == [i \in 1..Len(segs) |-> LowerSeg(segs[i])]

\* any(phrase in answer for phrase in no_info_phrases)
HasNoInfoPhrase(segs) == \E i \in 1..Len(segs) : segs[i] \in NoInfoPhrases

Bodies ==
    {"B_cited", "B_uncited", "B_noinfo_cited", "B_NOINFO_cited", "B_noinfo_uncited",
     "B_no_claims", "B_no_answer", "B_answer_int", "B_citations_str"}

\* The members of each body.
BodyOf(b) ==
    CASE b = "B_cited" ->
            [answer |-> Str(<<"ok">>), citations |-> List(<<"d1:1">>),
             claims |-> List(<<"claim1">>)]
      [] b = "B_uncited" ->
            [answer |-> Str(<<"ok">>), citations |-> List(<< >>), claims |-> List(<< >>)]
      [] b = "B_noinfo_cited" ->
            [answer |-> Str(<<"Aucune information", "ok">>),
             citations |-> List(<<"d1:1">>), claims |-> List(<<"claim1">>)]
      [] b = "B_NOINFO_cited" ->
            [answer |-> Str(<<"ok", "N'EST PAS MENTIONNÉ">>),
             citations |-> List(<<"d1:1", "d2:1">>), claims |-> List(<< >>)]
      [] b = "B_noinfo_uncited" ->
            [answer |-> Str(<<"pas précisé">>), citations |-> List(<< >>),
             claims |-> List(<< >>)]
      [] b = "B_no_claims" ->
            [answer |-> Str(<<"ok">>), citations |-> List(<<"d1:1">>), claims |-> Absent]
      [] b = "B_no_answer" ->
            [answer |-> Absent, citations |-> List(<<"d1:1">>),
             claims |-> List(<<"claim1">>)]
      [] b = "B_answer_int" ->
            [answer |-> IntVal, citations |-> List(<<"d1:1">>),
             claims |-> List(<<"claim1">>)]
      [] OTHER ->
            [answer |-> Str(<<"ok">>), citations |-> Str(<<"d1">>),
             claims |-> List(<<"claim1">>)]

\* The completions the model feeds the parsers: a core, bare or inside a
\* fenced block, with or without prose before and after.
Cores ==
    {<<LB, b, RB>> : b \in Bodies} \cup {<<LB, b>> : b \in Bodies}
        \cup {<<LB, RB>>, <<TXT>>, <<STRTOK>>, <<NUMTOK>>}

Fenced(core) == <<FENCE, NL>> \o core \o <<NL, FENCE>>

RawTexts ==
    {pre \o mid \o post :
        pre \in {<< >>, <<TXT, NL>>},
        mid \in Cores \cup {Fenced(c) : c \in Cores},
        post \in {<< >>, <<NL, TXT>>}}

\* ---- str helpers ----

RECURSIVE LStrip(_)
LStrip(s) == IF s # << >> /\ Head(s) \in {NL, SP} THEN LStrip(Tail(s)) ELSE s

RECURSIVE RStrip(_)
RStrip(s) ==
    IF s # << >> /\ s[Len(s)] \in {NL, SP} THEN RStrip(SubSeq(s, 1, Len(s) - 1)) ELSE s

\* str.strip()
Strip(s) == RStrip(LStrip(s))

\* str.find / str.rfind of one token: an index from 1, or 0 for Python's -1.
Find(s, tok) ==
    IF \E i \in 1..Len(s) : s[i] = tok
    THEN CHOOSE i \in 1..Len(s) : s[i] = tok /\ \A j \in 1..(i - 1) : s[j] # tok
    ELSE 0

RFind(s, tok) ==
    IF \E i \in 1..Len(s) : s[i] = tok
    THEN CHOOSE i \in 1..Len(s) : s[i] = tok /\ \A j \in (i + 1)..Len(s) : s[j] # tok
    ELSE 0

\* str.split('\n')
RECURSIVE SplitLines(_)
SplitLines(s) ==
    LET i == Find(s, NL)
    IN IF i = 0 THEN <<s>>
       ELSE <<SubSeq(s, 1, i - 1)>> \o SplitLines(SubSeq(s, i + 1, Len(s)))

\* '\n'.join(lines)
RECURSIVE JoinLines(_)
JoinLines(ls) ==
    IF ls = << >> THEN << >>
    ELSE IF Len(ls) = 1 THEN ls[1]
    ELSE ls[1] \o <<NL>> \o JoinLines(Tail(ls))

\* line.startswith of the fence
StartsWithFence(line) == line # << >> /\ line[1] = FENCE

\* '{' in line or '}' in line or '"' in line
HasJsonPunctuation(line) ==
    \E i \in 1..Len(line) : line[i] \in {LB, RB, STRTOK} \cup Bodies


\* str.replace('\n', ' ')
ReplaceNewlines(s) == [i \in 1..Len(s) |-> IF s[i] = NL THEN SP ELSE s[i]]

\* str.replace('"', '\\"')
RECURSIVE EscapeQuotes(_)
EscapeQuotes(s) ==
    IF s = << >> THEN << >>
    ELSE IF Head(s) \in Bodies \cup {STRTOK}
         THEN <<ESC, Head(s)>> \o EscapeQuotes(Tail(s))
         ELSE <<Head(s)>> \o EscapeQuotes(Tail(s))

\* ---- what the parsers hand back ----

NoError == "absent"

Dict(answer, citations, claims, error) ==
    [py |-> "dict", answer |-> answer, citations |-> citations, claims |-> claims,
     error |-> error]

\* A Python str or int that json.loads produced from a scalar document.
Scalar(py) ==
    [py |-> py, answer |-> Absent, citations |-> Absent, claims |-> Absent,
     error |-> NoError]

NoValue == Scalar("none")

\* [{"text": clean_text, "citations": []}]
ClaimOfText(clean_text) == [t |-> "claim_of_text", v |-> clean_text]

Fallback(clean_text) ==
    Dict(Str(clean_text), List(<< >>), ClaimOfText(clean_text), NoError)

Returns(value) == [exc |-> "none", value |-> value]
Raises(exc) == [exc |-> exc, value |-> NoValue]

\* json.loads: blanks and line breaks between tokens do not count.
JsonLoads(s) ==
    LET doc == SelectSeq(s, LAMBDA x : x \notin {NL, SP})
    IN IF Len(doc) = 3 /\ doc[1] = LB /\ doc[2] \in Bodies /\ doc[3] = RB
       THEN Returns(Dict(BodyOf(doc[2]).answer, BodyOf(doc[2]).citations,
                         BodyOf(doc[2]).claims, NoError))
       ELSE IF doc = <<LB, RB>> THEN Returns(Dict(Absent, Absent, Absent, NoError))
       ELSE IF doc = <<STRTOK>> THEN Returns(Scalar("str"))
       ELSE IF doc = <<NUMTOK>> THEN Returns(Scalar("int"))
       ELSE Raises("JSONDecodeError")

\* all(key in parsed_response for key in required_keys): membership of a
\* dict, substring of a str, TypeError of an int.
HasRequiredKeys(parsed) ==
    IF parsed.py = "dict"
    THEN parsed.answer # Absent /\ parsed.citations # Absent /\ parsed.claims # Absent
    ELSE parsed.py = "str"

\* The loop over the lines of a completion that holds a fence.
RECURSIVE FenceFilter(_, _)
FenceFilter(lines, in_json_block) ==
    IF lines = << >> THEN << >>
    ELSE IF StartsWithFence(Head(lines))
         THEN FenceFilter(Tail(lines), ~in_json_block)
         ELSE IF in_json_block \/ HasJsonPunctuation(Head(lines))
              THEN <<Head(lines)>> \o FenceFilter(Tail(lines), in_json_block)
              ELSE FenceFilter(Tail(lines), in_json_block)

\* The text that reaches json.loads in _parse_and_validate_response.
CleanedResponse(raw_response) ==
    LET unfenced ==
            IF \E i \in 1..Len(raw_response) : raw_response[i] = FENCE
            THEN Strip(JoinLines(FenceFilter(SplitLines(raw_response), FALSE)))
            ELSE raw_response
        stripped == Strip(unfenced)
        start_idx == Find(stripped, LB)
        end_idx == RFind(stripped, RB)
    IN IF start_idx # 0 /\ end_idx # 0 /\ end_idx > start_idx
       THEN SubSeq(stripped, start_idx, end_idx)
       ELSE stripped

\* if any(phrase in answer ...): citations and claims are emptied.
GateCitations(parsed) ==
    IF HasNoInfoPhrase(Lower(parsed.answer.v))
    THEN Dict(parsed.answer, List(<< >>), List(<< >>), parsed.error)
    ELSE parsed

\* BaseLLMManager._parse_and_validate_response
ParseAndValidateResponse(raw_response) ==
    LET loaded == JsonLoads(CleanedResponse(raw_response))
        parsed == loaded.value
        fallback == Returns(Fallback(Strip(ReplaceNewlines(raw_response))))
    IN IF loaded.exc # "none" THEN fallback
       ELSE IF parsed.py = "int" THEN Raises("TypeError")
       ELSE IF ~HasRequiredKeys(parsed) THEN fallback
       ELSE IF parsed.py = "str" THEN Raises("AttributeError")
       ELSE IF parsed.answer.t # "str" THEN Raises("AttributeError")
       ELSE Returns(GateCitations(parsed))

ErrorDict(answer, error) == Dict(Str(answer), List(<< >>), List(<< >>), error)

\* BaseLLMManager.generate_response, which GroqManager inherits.  `raises`
\* says whether _generate_raw_response raised; raw is the completion's text.
BaseGenerateResponse(is_available, raises, raw) ==
    IF ~is_available
    THEN ErrorDict(<<"GroqManager non disponible">>, "GroqManager non configuré")
    ELSE IF raises
    THEN ErrorDict(<<"Erreur lors de la génération avec GroqManager", "APIError">>,
                   "APIError")
    ELSE LET r == ParseAndValidateResponse(Strip(raw))
         IN IF r.exc # "none"
            THEN ErrorDict(<<"Erreur lors de la génération avec GroqManager", r.exc>>,
                           r.exc)
            ELSE r.value

\* The lines MistralManager keeps of a completion that starts with a fence.
MistralUnfence(raw_response) ==
    IF StartsWithFence(raw_response)
    THEN LET lines == SplitLines(raw_response)
             end_idx == IF StartsWithFence(lines[Len(lines)])
                        THEN Len(lines) - 1 ELSE Len(lines)
         IN JoinLines(SubSeq(lines, 2, end_idx))
    ELSE raw_response

\* MistralManager.generate_response
MistralGenerateResponse(is_available, raises, raw) ==
    IF ~is_available
    THEN ErrorDict(<<"Mistral non disponible">>, "Mistral/Ollama non configuré")
    ELSE IF raises
    THEN ErrorDict(<<"Erreur lors de la génération", "ResponseError">>, "ResponseError")
    ELSE LET raw_response == MistralUnfence(Strip(raw))
             loaded == JsonLoads(raw_response)
             parsed == loaded.value
             fallback == Fallback(ReplaceNewlines(EscapeQuotes(raw_response)))
         IN IF loaded.exc # "none" THEN fallback
            ELSE IF parsed.py = "int"
            THEN ErrorDict(<<"Erreur lors de la génération", "TypeError">>, "TypeError")
            ELSE IF ~HasRequiredKeys(parsed) THEN fallback
            ELSE parsed

(***************************************************************************)
(* Part III.  RAGPipeline.search                                           *)
(***************************************************************************)

\* Bound: the calls of RAGPipeline.search in one behaviour.
MaxSearches == 1

\* RAGConfig.DEFAULT_TOP_K and RAGConfig.DEFAULT_RERANK_TOP_K.
DEFAULT_TOP_K == 20
DEFAULT_RERANK_TOP_K == 10

Managers == {"groq", "mistral", "reranker"}

\* Python's None, and a str argument: v is <<s>> for the string s and << >>
\* for the empty string.
PyNone == [t |-> "none", v |-> << >>]

\* bool(x) of None, a str or a list.
Truthy(x) == x.t \notin {"none", "absent"} /\ x.v # << >>

\* The points of a populated collection.  score is the similarity of the
\* point's vector to the query's.
Points ==
    {[doc_id |-> "d1", page |-> 1, chunk_id |-> "d1_p1_c0", content |-> "intro", score |-> 3],
     [doc_id |-> "d2", page |-> 1, chunk_id |-> "d2_p1_c0", content |-> "long", score |-> 2],
     [doc_id |-> "d1", page |-> 2, chunk_id |-> "d1_p2_c0", content |-> "rule", score |-> 1]}

\* The pages of a document of 12 chunks, one a page: chunk ids and contents.
ManualChunkIds ==
    <<"d3_p1_c0", "d3_p2_c0", "d3_p3_c0", "d3_p4_c0", "d3_p5_c0", "d3_p6_c0",
      "d3_p7_c0", "d3_p8_c0", "d3_p9_c0", "d3_p10_c0", "d3_p11_c0", "d3_p12_c0">>

ManualContents ==
    <<"m1", "m2", "m3", "m4", "m5", "m6", "m7", "m8", "m9", "m10", "m11", "m12">>

\* The points of a collection that holds more points than
\* DEFAULT_RERANK_TOP_K; the later the page, the nearer to the query.
ManyPoints ==
    {[doc_id |-> "d3", page |-> k, chunk_id |-> ManualChunkIds[k],
      content |-> ManualContents[k], score |-> k] : k \in 1..Len(ManualContents)}

\* What the cross-encoder gives a passage for the query: an order of its own
\* on the passages, unlike the order of the vector search.
CrossEncoderScore(content) ==
    CASE content = "intro" -> 1
      [] content = "long" -> 2
      [] content \in {ManualContents[k] : k \in 1..Len(ManualContents)} ->
            ((CHOOSE k \in 1..Len(ManualContents) : ManualContents[k] = content) * 5) % 13
      [] OTHER -> 3

\* Contents longer than 200 characters.
LongContents == {"long"}

\* The values a caller passes to search_similar as doc_ids.
DocIdArgs ==
    {PyNone, Str(<< >>), Str(<<"d1">>), Str(<<"d3">>), List(<< >>), List(<<"d2">>),
     List(<<"d1", "d3">>), List(<<"d1", "d2">>)}

\* The values a caller passes to search as doc_ids.
SearchDocIdArgs == {PyNone, List(<<"d2">>)}

\* The values a caller passes to search_similar as limit.
SimilarLimitArgs == {1, 2, 3, 10}

\* The values a caller passes as limit; 0 stands for both None and 0.
LimitArgs == {0, 1}

\* The values a caller passes as llm_provider.
ProviderArgs == {"mistral", "groq", "openai"}

\* The completions the LLM gives a search.
SearchRaws ==
    {<<LB, "B_cited", RB>>, <<LB, "B_noinfo_cited", RB>>, <<LB, "B_answer_int", RB>>,
     <<LB, "B_cited">>, <<STRTOK>>}

\* The first n elements of a list: s[:n].
Take(s, n) == SubSeq(s, 1, IF n < Len(s) THEN n ELSE Len(s))

\* The points of S as a list, the most similar first: the point at index
\* i has i - 1 points above it.
ByScore(S) ==
    [i \in 1..Cardinality(S) |->
        CHOOSE x \in S : Cardinality({y \in S : y.score > x.score}) = i - 1]

\* The query_filter search_similar builds: the set of doc_id values that
\* pass, or "no_filter".
MatchAll == {"*"}

\* A search_similar that builds no filter.
SearchFilter_None(doc_ids) == MatchAll

SearchFilter(doc_ids) ==
    IF Truthy(doc_ids)
    THEN IF doc_ids.t = "str" THEN {doc_ids.v[1]}
         ELSE IF doc_ids.t = "list" /\ Len(doc_ids.v) > 0
              THEN {doc_ids.v[i] : i \in 1..Len(doc_ids.v)}
              ELSE MatchAll
    ELSE MatchAll

PassesFilter(p, search_filter) == search_filter = MatchAll \/ p.doc_id \in search_filter

\* client.search: the limit nearest points that pass the filter.
ClientSearch(coll, search_filter, limit) ==
    Take(ByScore({p \in coll : PassesFilter(p, search_filter)}), limit)

\* QdrantManager.search_similar; raises says whether client.search raised.
SearchSimilar(coll, limit, doc_ids, raises) ==
    IF raises THEN << >> ELSE ClientSearch(coll, SearchFilter(doc_ids), limit)

\* DocumentChunk(content=..., doc_id=..., page=..., chunk_id=...) of a result.
Chunk(result) ==
    [content |-> result.content, doc_id |-> result.doc_id, page |-> result.page,
     chunk_id |-> result.chunk_id]

\* chunk_scores.sort(key=score, reverse=True) on the cross-encoder's scores.
SortByCrossEncoder(S) ==
    [i \in 1..Cardinality(S) |->
        CHOOSE x \in S :
            Cardinality({y \in S : CrossEncoderScore(y.content)
                                      > CrossEncoderScore(x.content)}) = i - 1]

\* A rerank whose scores after a failure are not in the order of the passages.
Reranked_AlwaysSorted(chunks, rerank_raises) ==
    SortByCrossEncoder({chunks[i] : i \in 1..Len(chunks)})

\* RerankerManager.rerank followed by the sort.  When compute_score raises,
\* rerank gives the scores 1.0 - i * 0.01, under which the sort keeps the order.
Reranked(chunks, rerank_raises) ==
    IF rerank_raises THEN chunks
    ELSE SortByCrossEncoder({chunks[i] : i \in 1..Len(chunks)})

Min(a, b) == IF a < b THEN a ELSE b

\* A search that asks for limit results whether or not it reranks.
SearchLimit_Single(limit, use_reranking) == limit

\* Line 117: limit=limit * 2 if use_reranking else limit
SearchLimit(limit, use_reranking) == IF use_reranking THEN limit * 2 ELSE limit

\* Line 146: rerank_limit = min(limit, RAGConfig.DEFAULT_RERANK_TOP_K)
RerankLimit(limit) == Min(limit, DEFAULT_RERANK_TOP_K)

\* _build_context: the sentence for no chunk, or one part (Document, Page,
\* Contenu) per chunk, joined in the order of the chunks.
BuildContext(chunks) ==
    [none  |-> chunks = << >>,
     parts |-> [i \in 1..Len(chunks) |->
                  [doc_id |-> chunks[i].doc_id, page |-> chunks[i].page,
                   content |-> chunks[i].content]]]

\* The manager that line 156 hands the prompt to, without the check.
Dispatch_Unchecked(llm_provider, groq_available) ==
    IF llm_provider = "groq" THEN "groq" ELSE "mistral"

\* The manager that lines 156-161 hand the prompt to.
Dispatch(llm_provider, groq_available) ==
    IF llm_provider = "groq" /\ groq_available THEN "groq" ELSE "mistral"

\* chunk.content[:200] + "..." if len(chunk.content) > 200 else chunk.content
Excerpt(content) == [text |-> content, cut |-> content \in LongContents]

Source(chunk) ==
    [doc_id |-> chunk.doc_id, page |-> chunk.page, content |-> Excerpt(chunk.content),
     score |-> "0.8"]

\* The sources of lines 164-177 without the test of line 167.
Sources_Ungated(citations, chunks) ==
    [i \in 1..Len(chunks) |-> Source(chunks[i])]

\* Lines 164-177: one source per chunk, if the response has citations.
Sources(citations, chunks) ==
    IF Truthy(citations) THEN [i \in 1..Len(chunks) |-> Source(chunks[i])] ELSE << >>

NoMessage == "None"

RAGResponse(answer, citations, claims, sources, confidence, success, error_message) ==
    [answer |-> answer, citations |-> citations, claims |-> claims, sources |-> sources,
     confidence |-> confidence, processing_time |-> "0.0", success |-> success,
     error_message |-> error_message]

\* RAGResponse.error
RAGResponse_error(error_message) ==
    RAGResponse(Str(<<"Erreur système", error_message>>), List(<< >>), List(<< >>), << >>,
                "0.0", FALSE, error_message)

\* RAGResponse.empty
RAGResponse_empty ==
    RAGResponse(Str(<<"Aucune information pertinente trouvée.">>), List(<< >>), List(<< >>),
                << >>, "0.0", FALSE, "Aucun contexte disponible")

\* The except branch of search, lines 196-207.
SearchFailure(e) ==
    RAGResponse(Str(<<"Erreur lors de la recherche", e>>), List(<< >>), List(<< >>), << >>,
                "0.0", FALSE, e)

\* What the providers do during one search: which of them raise, and the
\* text the LLM completes the prompt with.
Env(embed_raises, search_raises, rerank_raises, llm_raises, raw) ==
    [embed_raises |-> embed_raises, search_raises |-> search_raises,
     rerank_raises |-> rerank_raises, llm_raises |-> llm_raises, raw |-> raw]

(***************************************************************************)
(* Part IV.  DocumentProcessor                                             *)
(***************************************************************************)

\* RAGConfig.CHUNK_SIZE and RAGConfig.CHUNK_OVERLAP.
CHUNK_SIZE == 512

CHUNK_OVERLAP == 50

\* create_chunks looks for a word boundary only in a chunk_text longer than this.
MinLengthForWordBoundary == 100

\* create_chunks leaves its loop once chunk_num exceeds this.
MaxChunksPerPage == 1000

\* A text is its length and the offsets of its spaces; every other character
\* is a letter.
Text(len, spaces) == [len |-> len, spaces |-> spaces]

\* text[from:to].lstrip() and .rstrip(), as offsets in text.
RECURSIVE LStripOffset(_, _, _)
LStripOffset(text, from, to) ==
    IF from < to /\ from \in text.spaces THEN LStripOffset(text, from + 1, to) ELSE from

RECURSIVE RStripOffset(_, _, _)
RStripOffset(text, from, to) ==
    IF from < to /\ (to - 1) \in text.spaces THEN RStripOffset(text, from, to - 1) ELSE to

\* The offset Python's slicing takes for the index i: a negative index counts
\* from the end of the text, and an index beyond either end is the end.
SliceIndex(text, i) ==
    IF i < 0 THEN (IF text.len + i < 0 THEN 0 ELSE text.len + i)
    ELSE IF i > text.len THEN text.len ELSE i

\* text[start:end] as offsets in text; the slice is empty when its end is not
\* after its start.
Slice(text, start, end) ==
    [from |-> SliceIndex(text, start),
     to   |-> IF SliceIndex(text, end) < SliceIndex(text, start)
              THEN SliceIndex(text, start) ELSE SliceIndex(text, end)]

\* text[from:to].strip(), as the slice of text it is.
StripSlice(text, from, to) ==
    LET s == Slice(text, from, to)
    IN  [from |-> LStripOffset(text, s.from, s.to),
         to   |-> RStripOffset(text, LStripOffset(text, s.from, s.to), s.to)]

\* text.strip() as a text of its own.
StripText(text) ==
    LET s == StripSlice(text, 0, text.len)
    IN  Text(s.to - s.from, {p - s.from : p \in {q \in text.spaces : s.from < q /\ q < s.to}})

\* A file of the data directory: its path split by pathlib, whether open()
\* succeeds, its digest, and the text PyPDF2 (or read()) gives for each page.
Document(path, stem, suffix, exists, sha256, pages) ==
    [path |-> path, stem |-> stem, suffix |-> suffix, exists |-> exists,
     sha256 |-> sha256, pages |-> pages]

\* DocumentProcessor(chunk_size, chunk_overlap): 0 stands for None, and like
\* None it is replaced by the configured value.
DocumentProcessor(chunk_size, chunk_overlap) ==
    [chunk_size    |-> IF chunk_size = 0 THEN CHUNK_SIZE ELSE chunk_size,
     chunk_overlap |-> IF chunk_overlap = 0 THEN CHUNK_OVERLAP ELSE chunk_overlap]

\* calculate_file_hash: the digest, or "" when the file cannot be read.
CalculateFileHash(doc) == IF doc.exists THEN doc.sha256 ELSE ""

\* suffix.lower()
LowerSuffix(suffix) ==
    IF suffix = ".PDF" THEN ".pdf" ELSE IF suffix = ".TXT" THEN ".txt" ELSE suffix

\* extract_text_from_pdf: page number -> stripped text, for the pages whose
\* text is not blank; {} when the file cannot be opened (the exception is
\* caught and logged).
ExtractTextFromPdf(doc) ==
    IF ~doc.exists THEN << >>
    ELSE [p \in {q \in 1..Len(doc.pages) : StripText(doc.pages[q]).len > 0}
            |-> StripText(doc.pages[p])]

\* extract_text_from_txt: the whole stripped content as page 1; {} when it is
\* blank or the file cannot be opened.
ExtractTextFromTxt(doc) ==
    IF ~doc.exists \/ Len(doc.pages) = 0 THEN << >>
    ELSE IF StripText(doc.pages[1]).len = 0 THEN << >>
    ELSE [p \in {1} |-> StripText(doc.pages[1])]

\* pages_content of process_document; an unsupported suffix returns before
\* any page is read.
Supported(doc) == LowerSuffix(doc.suffix) \in {".pdf", ".txt"}

PagesContent(doc) ==
    IF LowerSuffix(doc.suffix) = ".pdf" THEN ExtractTextFromPdf(doc)
    ELSE IF LowerSuffix(doc.suffix) = ".txt" THEN ExtractTextFromTxt(doc)
    ELSE << >>

\* The keys of pages_content from page number p on, in insertion order.
PagesFrom(pages_content, p) == {q \in DOMAIN pages_content : q >= p}

\* The first key of pages_content that is >= p whose text is not blank (the
\* test of line 150), 0 when there is none.
NextPage(pages_content, p) ==
    LET rest == {q \in PagesFrom(pages_content, p) : StripText(pages_content[q]).len > 0}
    IN  IF rest = {} THEN 0 ELSE CHOOSE q \in rest : \A r \in rest : q <= r

\* DocumentChunk.create: chunk_id is f"{doc_id}_p{page}_c{chunk_num}" and the
\* content is stripped.  The content text[from:to] is kept as its slice of the
\* page text; created_at (datetime.now) is "now"; no embedding yet.
DocumentChunk_create(text, from, to, doc_id, page, chunk_num, file_path, file_hash) ==
    [content    |-> StripSlice(text, from, to),
     doc_id     |-> doc_id,
     page       |-> page,
     chunk_id   |-> <<doc_id, page, chunk_num>>,
     file_path  |-> file_path,
     file_hash  |-> file_hash,
     created_at |-> "now",
     embedding  |-> "None"]

\* chunk_text.rfind(' ') for chunk_text = text[start:end]
RFindSpace(text, start, end) ==
    LET s == Slice(text, start, end)
        inside == {p \in text.spaces : s.from <= p /\ p < s.to}
    IN  IF inside = {} THEN 0 - 1
        ELSE (CHOOSE p \in inside : \A q \in inside : q <= p) - s.from

\* len(text[start:end])
SliceLen(text, start, end) == Slice(text, start, end).to - Slice(text, start, end).from

\* A chunker that cuts at a last space lying beyond 20% of the chunk_text.
ChunkEnd_EarlyCut(self, text, start) ==
    LET end == Min(start + self.chunk_size, text.len)
        last_space == RFindSpace(text, start, end)
    IN  IF /\ end < text.len
           /\ SliceLen(text, start, end) > MinLengthForWordBoundary
           /\ 5 * last_space > SliceLen(text, start, end)
        THEN start + last_space
        ELSE end

\* The end of the chunk that starts at start (lines 98-106): the window of
\* chunk_size characters, cut back to its last space when that space lies
\* beyond 80% of a chunk_text of more than 100 characters that does not end
\* the text.
ChunkEnd(self, text, start) ==
    LET end == Min(start + self.chunk_size, text.len)
        last_space == RFindSpace(text, start, end)
    IN  IF /\ end < text.len
           /\ SliceLen(text, start, end) > MinLengthForWordBoundary
           /\ 5 * last_space > 4 * SliceLen(text, start, end)
        THEN start + last_space
        ELSE end

\* A loop that allows itself one pass more.
BreakAfter_OnePassMore(chunk_num) == chunk_num > MaxChunksPerPage + 1

\* Line 123: if chunk_num > 1000, after chunk_num was incremented.
BreakAfter(chunk_num) == chunk_num > MaxChunksPerPage

\* A loop whose chunks do not overlap.
NextStart_NoOverlap(self, text, end) == end

\* The start of the following chunk (line 119).
NextStart(self, text, end) ==
    IF end < text.len THEN end - self.chunk_overlap ELSE end

\* The loop of create_chunks (lines 97-125) from the chunk that starts at
\* start, for a text that needs few chunks.
RECURSIVE ChunkLoop(_, _, _, _, _, _, _, _, _)
ChunkLoop(self, text, doc_id, page, file_path, file_hash, start, chunk_num, chunks) ==
    IF ~(start < text.len) THEN chunks
    ELSE LET end == ChunkEnd(self, text, start)
             more == Append(chunks, DocumentChunk_create(text, start, end, doc_id, page,
                                                     chunk_num, file_path, file_hash))
         IN  IF BreakAfter(chunk_num + 1) THEN more
             ELSE ChunkLoop(self, text, doc_id, page, file_path, file_hash,
                            NextStart(self, text, end), chunk_num + 1, more)

\* create_chunks(text, doc_id, page, file_path, file_hash)
CreateChunks(self, text, doc_id, page, file_path, file_hash) ==
    IF text.len <= self.chunk_size
    THEN << DocumentChunk_create(text, 0, text.len, doc_id, page, 1, file_path, file_hash) >>
    ELSE ChunkLoop(self, text, doc_id, page, file_path, file_hash, 0, 1, << >>)

\* process_document(file_path): the chunks of every page, in page order.
RECURSIVE ChunksFromPage(_, _, _, _)
ChunksFromPage(self, doc, pages_content, p) ==
    IF NextPage(pages_content, p) = 0 THEN << >>
    ELSE CreateChunks(self, pages_content[NextPage(pages_content, p)], doc.stem,
                      NextPage(pages_content, p), doc.path, CalculateFileHash(doc))
         \o ChunksFromPage(self, doc, pages_content, NextPage(pages_content, p) + 1)

ProcessDocument(self, doc) == ChunksFromPage(self, doc, PagesContent(doc), 1)

\* ---- the documents and processors of the model ----

\* Where the 1800 characters of the example page may have a space.
ExampleSpaces == {200, 401, 450, 752, 1103, 1454}

\* The two-page example: 1800 characters then 300 characters.
ExampleDocuments ==
    {Document("example.pdf", "example", ".pdf", TRUE, "e3b0",
              << Text(1800, S), Text(300, {120}) >>) : S \in SUBSET ExampleSpaces}

\* A text file larger than 1000 windows, a short memo, a PDF with a blank
\* page between two short ones, a one-page PDF longer than a chunk, a blank
\* PDF, a file of an unsupported type and a path to no file.
OtherDocuments ==
    {Document("long.txt", "long", ".txt", TRUE, "77af", << Text(470000, {}) >>),
     Document("memo.TXT", "memo", ".TXT", TRUE, "0c11", << Text(42, {0, 4, 41}) >>),
     Document("scan.pdf", "scan", ".pdf", TRUE, "9d2e",
              << Text(30, {10}), Text(2, {0, 1}), Text(40, {}) >>),
     Document("guide.pdf", "guide", ".pdf", TRUE, "c07a", << Text(600, {480, 500}) >>),
     Document("blank.pdf", "blank", ".pdf", TRUE, "51b8", << Text(1, {0}) >>),
     Document("notes.docx", "notes", ".docx", TRUE, "a4c0", << Text(80, {}) >>),
     Document("missing.pdf", "missing", ".pdf", FALSE, "", << >>)}

Documents == ExampleDocuments \cup OtherDocuments

\* The processors: the one of the example and the configured default.
Processors == {DocumentProcessor(500, 50), DocumentProcessor(0, 0)}

\* Processors whose chunk_overlap is not less than their chunk_size, and the
\* documents they are run on.
OverlapProcessors ==
    {DocumentProcessor(500, 500), DocumentProcessor(100, 300), DocumentProcessor(1, 5)}

OverlapDocuments ==
    {d \in OtherDocuments : d.path \in {"guide.pdf", "memo.TXT", "scan.pdf"}}
        \cup {Document("short.txt", "short", ".txt", TRUE, "sha-short",
                       << Text(130, {110}) >>)}

\* The process_document calls: a processor and the file it is given.
Runs ==
    {[self |-> self, doc |-> doc] : self \in Processors, doc \in Documents}
        \cup {[self |-> self, doc |-> doc] :
                 self \in OverlapProcessors, doc \in OverlapDocuments}

\* No process_document call is running.
IdleProcessor ==
    [pc |-> "idle", self |-> DocumentProcessor(0, 0),
     doc |-> Document("", "", "", FALSE, "", << >>), pages_content |-> << >>,
     page |-> 0, start |-> 0, chunk_num |-> 0,
     chunks |-> << >>, all_chunks |-> << >>, windows |-> << >>]

NoProcessor == proc = IdleProcessor

(***************************************************************************)
(* Part V.  RAGPipeline.ingest_document and the collection operations      *)
(***************************************************************************)

\* Bound: the number of public operations called in one behaviour.
MaxCalls == 2

\* RAGConfig.VECTOR_SIZE
VECTOR_SIZE == 1024

\* Distance.COSINE
COSINE == "Cosine"

\* The page size of the scroll of list_documents.  The source reads
\* limit=10000 and drops the next-page offset; the model keeps the single page
\* and scales its size to the model's collections.
ListScrollLimit == 2

\* RAGPipeline builds its DocumentProcessor() with the configured sizes.
PipelineProcessor == DocumentProcessor(0, 0)

\* The files the pipeline is asked to ingest.
Library ==
    {d \in OtherDocuments :
        d.path \in {"memo.TXT", "scan.pdf", "blank.pdf", "notes.docx", "missing.pdf"}}

\* The chunk ids store_chunks may hash.
ChunkIds ==
    UNION {{ProcessDocument(PipelineProcessor, d)[i].chunk_id :
              i \in 1..Len(ProcessDocument(PipelineProcessor, d))} : d \in Library}

\* The local Qdrant store has no collection of the pipeline's name.
NoCollection == [exists |-> FALSE, size |-> 0, distance |-> "none", points |-> {}]

\* client.create_collection(vectors_config=VectorParams(size, distance))
CreateCollection(size, distance) ==
    [exists |-> TRUE, size |-> size, distance |-> distance, points |-> {}]

\* _ensure_collection without exception: the collection is created with the
\* configured size and the cosine distance unless one of that name exists.
EnsureCollection(q) ==
    IF ~q.exists THEN CreateCollection(VECTOR_SIZE, COSINE) ELSE q

\* A client.delete_collection that keeps the collection.
DeleteCollection_Kept(q) == q

\* client.delete_collection
DeleteCollection(q) == NoCollection

\* hash(chunk.chunk_id) % (2**63 - 1) for the hash value h: the number
\* wraps * (2**63 - 1) + rem, which is h for h >= 0 and 2**63 - 1 + h for the
\* negative h of the model.
StoreChunksPointId(h) == [wraps |-> IF h < 0 THEN 1 ELSE 0, rem |-> h]

\* a < b for two point ids.
IdBefore(a, b) == a.wraps < b.wraps \/ (a.wraps = b.wraps /\ a.rem < b.rem)

\* encode_texts then the loop of lines 65-66: every chunk gets its vector.
WithEmbeddings(chunks) ==
    [i \in 1..Len(chunks) |-> [chunks[i] EXCEPT !.embedding = "vector"]]

\* The payload store_chunks builds (lines 120-128).
Payload(chunk) ==
    [content    |-> chunk.content,
     doc_id     |-> chunk.doc_id,
     page       |-> chunk.page,
     chunk_id   |-> chunk.chunk_id,
     file_path  |-> chunk.file_path,
     file_hash  |-> chunk.file_hash,
     created_at |-> chunk.created_at]

\* PointStruct(id, vector, payload); the vector is not modelled.
PointStruct(h, chunk) ==
    [id |-> StoreChunksPointId(h[chunk.chunk_id]), payload |-> Payload(chunk)]

\* The chunks store_chunks makes a point of: those with an embedding.
HasEmbedding(chunk) == chunk.embedding # "None"

\* client.upsert(points): every point, in order, overwrites the point that
\* has its id.
RECURSIVE ClientUpsert(_, _)
ClientUpsert(S, points) ==
    IF points = << >> THEN S
    ELSE ClientUpsert(Upsert(S, Head(points)), Tail(points))

\* The list points of store_chunks (lines 111-130).
ValidPoints(h, chunks) ==
    LET valid == SelectSeq(chunks, HasEmbedding)
    IN  [i \in 1..Len(valid) |-> PointStruct(h, valid[i])]

\* store_chunks(chunks) under the hash h: what it returns and the collection
\* it leaves.  upsert_raises: client.upsert raises, as it does when the
\* collection is missing, and persists nothing.
StoreChunks(q, h, chunks, upsert_raises) ==
    IF chunks = << >> THEN [returns |-> TRUE, q |-> q]
    ELSE IF ValidPoints(h, chunks) = << >> THEN [returns |-> FALSE, q |-> q]
    ELSE IF upsert_raises \/ ~q.exists THEN [returns |-> FALSE, q |-> q]
    ELSE [returns |-> TRUE,
          q |-> [q EXCEPT !.points = ClientUpsert(q.points, ValidPoints(h, chunks))]]

\* The hash values of this process once the chunk ids of chunks have been
\* hashed: a chunk id keeps the value it has, a new one draws its value.
HashesAfter(h, chunks) ==
    LET hashed == {chunks[i].chunk_id : i \in {j \in 1..Len(chunks) : HasEmbedding(chunks[j])}}
    IN  {[s \in ChunkIds |-> IF s \in hashed THEN f[s] ELSE h[s]] :
            f \in {g \in [hashed -> HashVals] : \A s \in hashed : g[s] \in HashChoices(h, s)}}

\* ---- what the operations return ----

\* DocumentIngestionResult.success_result / error_result
SuccessResult(doc_id, chunks_created, pages_processed) ==
    [type |-> "DocumentIngestionResult", doc_id |-> doc_id,
     chunks_created |-> chunks_created, pages_processed |-> pages_processed,
     success |-> TRUE, error |-> "None"]

ErrorResultOf(doc_id, error) ==
    [type |-> "DocumentIngestionResult", doc_id |-> doc_id,
     chunks_created |-> 0, pages_processed |-> 0,
     success |-> FALSE, error |-> error]

Bool(b) == [type |-> "bool", value |-> b]

\* What is raised instead of a return value.
Exception(name) == [type |-> "exception", name |-> name]

\* len(set(chunk.page for chunk in chunks)) if chunks else 0
PagesProcessed(chunks) == Cardinality({chunks[i].page : i \in 1..Len(chunks)})

\* Python's order of the doc ids of the model (str comparison).
DocIdOrder == <<"blank", "example", "guide", "long", "memo", "missing", "notes", "scan">>

DocIdRank(d) == CHOOSE i \in 1..Len(DocIdOrder) : DocIdOrder[i] = d

\* client.scroll(limit=...): the first page, in point-id order.
ScrollPage(S, limit) ==
    {p \in S : Cardinality({r \in S : IdBefore(r.id, p.id)}) < limit}

\* DocumentInfo.from_analysis for the points of doc_id among all_points;
\* file_path and created_at come from the first of them.
DocumentInfo_from_analysis(doc_id, all_points) ==
    LET mine  == {p \in all_points : p.payload.doc_id = doc_id}
        first == CHOOSE p \in mine : \A r \in mine : ~IdBefore(r.id, p.id)
        pages == {p.payload.page : p \in mine}
    IN  [doc_id       |-> doc_id,
         chunks_count |-> Cardinality(mine),
         pages_count  |-> Cardinality(pages),
         pages_range  |-> <<CHOOSE a \in pages : \A b \in pages : a <= b,
                            CHOOSE a \in pages : \A b \in pages : a >= b>>,
         file_path    |-> first.payload.file_path,
         created_at   |-> first.payload.created_at]

\* result.sort(key=lambda x: x.doc_id), on the doc ids.
SortByDocId(doc_ids) ==
    [i \in 1..Cardinality(doc_ids) |->
        CHOOSE d \in doc_ids :
            Cardinality({e \in doc_ids : DocIdRank(e) < DocIdRank(d)}) = i - 1]

\* list_documents(): [] when the scroll raises, as it does when the
\* collection is missing.
ListDocuments(q, scroll_raises) ==
    IF scroll_raises \/ ~q.exists THEN << >>
    ELSE LET all_points == ScrollPage(q.points, ListScrollLimit)
             sorted == SortByDocId({p.payload.doc_id : p \in all_points})
         IN  [i \in 1..Len(sorted) |-> DocumentInfo_from_analysis(sorted[i], all_points)]

\* get_collection_info(): {} when get_collection raises.
GetCollectionInfo(q, get_raises) ==
    IF get_raises \/ ~q.exists THEN [type |-> "dict", keys |-> {}, points_count |-> 0]
    ELSE [type |-> "dict", keys |-> {"name", "vectors_count", "points_count", "status"},
          points_count |-> Cardinality(q.points)]

\* No public operation called yet.
NoOutcome ==
    [op |-> "none", doc |-> "", result |-> Bool(FALSE), raised |-> "none",
     chunks |-> << >>, stored |-> "not_called", client_raised |-> FALSE,
     before |-> NoCollection]

\* The pipeline is not constructed.
NoStore ==
    /\ qdrant = NoCollection
    /\ chunk_id_hash = [s \in ChunkIds |-> NotHashed]
    /\ outcome = NoOutcome
    /\ calls = 0

(***************************************************************************)
(* Part VI.  The Qdrant clients of one process                             *)
(*                                                                         *)
(* The incremental ingester reaches the store through get_global_client,   *)
(* a QdrantManager through the client its _connect builds.  A client is    *)
(* the k-th instance constructed in the process, on a storage path.        *)
(***************************************************************************)

\* The most clients the process constructs.
MaxClients == 3

\* os.path.join(Config.VECTORSTORE_DIR, "qdrant_db")
IngesterQdrantPath == "vectorstore/qdrant_db"

\* RAGConfig.get_qdrant_path(): <project root>/vectorstore/qdrant_local
PipelineQdrantPath == "vectorstore/qdrant_local"

\* QdrantClient(path=...): the k-th instance of the process.
QdrantClient(k, path) == [id |-> k, path |-> path]

\* None.
NoClient == QdrantClient(0, "none")

\* A thread outside get_global_client that has obtained no client.
IdleConsumer == [pc |-> "idle", client |-> NoClient]

NoClients ==
    /\ global_qdrant_client = NoClient
    /\ global_qdrant_lock = NoThread
    /\ consumer = [t \in Threads |-> IdleConsumer]
    /\ clients = [made |-> 0, global_made |-> 0, closed |-> {}]

notClientVars == <<ingestVars, llmVars, searchVars, chunkVars, storeVars>>

\* get_global_client, line 53: with _global_qdrant_lock.
GetGlobalClientLock(t) ==
    /\ consumer[t].pc = "idle"
    /\ global_qdrant_lock = NoThread
    /\ global_qdrant_client # NoClient \/ clients.made < MaxClients
    /\ global_qdrant_lock' = t
    /\ consumer' = [consumer EXCEPT ![t].pc = "get"]
    /\ UNCHANGED <<global_qdrant_client, clients>>
    /\ UNCHANGED notClientVars

\* Lines 54-57: the global is None, the client is constructed.
GetGlobalClientCreate(t) ==
    /\ consumer[t].pc = "get"
    /\ global_qdrant_client = NoClient
    /\ global_qdrant_client' = QdrantClient(clients.made + 1, IngesterQdrantPath)
    /\ clients' = [clients EXCEPT !.made = @ + 1, !.global_made = @ + 1]
    /\ UNCHANGED <<global_qdrant_lock, consumer>>
    /\ UNCHANGED notClientVars

\* Line 59: the global is returned and the with block releases the lock.
GetGlobalClientReturn(t) ==
    /\ consumer[t].pc = "get"
    /\ global_qdrant_client # NoClient
    /\ consumer' = [consumer EXCEPT ![t] = [pc |-> "idle",
                                             client |-> global_qdrant_client]]
    /\ global_qdrant_lock' = NoThread
    /\ UNCHANGED <<global_qdrant_client, clients>>
    /\ UNCHANGED notClientVars

\* close_global_client, lines 313-323: under the lock, the global client (if
\* any) is closed and the global set to None.
CloseGlobalClient(t) ==
    /\ consumer[t].pc = "idle"
    /\ global_qdrant_lock = NoThread
    /\ IF global_qdrant_client # NoClient
       THEN /\ clients' = [clients EXCEPT !.closed = @ \cup {global_qdrant_client.id}]
            /\ global_qdrant_client' = NoClient
       ELSE UNCHANGED <<global_qdrant_client, clients>>
    /\ UNCHANGED <<global_qdrant_lock, consumer>>
    /\ UNCHANGED notClientVars

\* QdrantManager.__init__ and _connect, lines 37-47: the manager of thread t
\* gets a client of its own.
QdrantManagerConnect(t) ==
    /\ consumer[t].pc = "idle"
    /\ clients.made < MaxClients
    /\ consumer' = [consumer EXCEPT ![t].client =
                       QdrantClient(clients.made + 1, PipelineQdrantPath)]
    /\ clients' = [clients EXCEPT !.made = @ + 1]
    /\ UNCHANGED <<global_qdrant_client, global_qdrant_lock>>
    /\ UNCHANGED notClientVars

\* _connect, lines 48-50: QdrantClient(path=...) raises and _connect raises it
\* again; the thread, which was replacing the client it held, has no manager.
QdrantManagerConnectFails(t) ==
    /\ consumer[t].pc = "idle"
    /\ consumer[t].client # NoClient
    /\ consumer' = [consumer EXCEPT ![t].client = NoClient]
    /\ UNCHANGED <<global_qdrant_client, global_qdrant_lock, clients>>
    /\ UNCHANGED notClientVars

(***************************************************************************)
(* The specifications of Parts I to III                                    *)
(***************************************************************************)

\* ---- the calls ----

\* No parser or generate_response call yet.
NoCall == [op |-> "none", completion |-> "not_called", raw |-> << >>,
           exc |-> "none", value |-> NoValue]

\* No search yet.
NoSearch == [op |-> "none", doc_ids |-> PyNone, llm_provider |-> "none", raised |-> {},
             dispatched |-> "none", completion |-> "not_called", completions |-> 0,
             search_results |-> << >>, chunks |-> << >>,
             limit |-> 0, use_reranking |-> FALSE, search_limit |-> 0,
             reranks |-> FALSE, context |-> BuildContext(<< >>)]

NoResponse == RAGResponse(PyNone, List(<< >>), List(<< >>), << >>, "none", FALSE, NoMessage)

\* No direct search_similar call yet.
NoSimilar == [op |-> "none", doc_ids |-> PyNone, limit |-> 0, raised |-> FALSE,
              results |-> << >>]

NoPipeline ==
    /\ collection = {}
    /\ response = NoResponse
    /\ search_log = NoSearch
    /\ similar = NoSimilar
    /\ searches = 0

\* The ingester runs in a process of its own: no manager is constructed.
NoManagers ==
    /\ available = [m \in Managers |-> FALSE]
    /\ llm_last = NoCall
    /\ NoPipeline

\* The ingester's process at start.
InitIngester == InitIngest /\ NoManagers /\ NoProcessor /\ NoStore /\ NoClients

SpecIngest == InitIngester /\ [][NextIngest]_vars

InitLLM ==
    /\ InitIngest
    /\ available \in [Managers -> BOOLEAN]
    /\ llm_last = NoCall
    /\ NoPipeline
    /\ NoProcessor
    /\ NoClients
    /\ NoStore

notLLMVars == <<ingestVars, searchVars, chunkVars, storeVars, clientVars>>

\* A direct call of BaseLLMManager._parse_and_validate_response.
ParseResponse(raw) ==
    /\ llm_last' = [op |-> "parse", completion |-> "text", raw |-> raw,
                    exc |-> ParseAndValidateResponse(raw).exc,
                    value |-> ParseAndValidateResponse(raw).value]
    /\ UNCHANGED <<available, notLLMVars>>

\* What a generate_response call leaves: no exception crosses it.
Generated(op, completion, raw, value) ==
    [op |-> op, completion |-> completion, raw |-> raw, exc |-> "none", value |-> value]

\* GroqManager.generate_response when the API answers with the text raw.
GroqGenerate(raw) ==
    /\ llm_last' =
          IF available["groq"]
          THEN Generated("groq", "text", raw, BaseGenerateResponse(TRUE, FALSE, raw))
          ELSE Generated("groq", "not_called", << >>,
                         BaseGenerateResponse(FALSE, FALSE, << >>))
    /\ UNCHANGED <<available, notLLMVars>>

\* GroqManager.generate_response when the API call raises.
GroqCompletionRaises ==
    /\ available["groq"]
    /\ llm_last' = Generated("groq", "raised", << >>,
                             BaseGenerateResponse(TRUE, TRUE, << >>))
    /\ UNCHANGED <<available, notLLMVars>>

\* MistralManager.generate_response when Ollama answers with the text raw.
MistralGenerate(raw) ==
    /\ llm_last' =
          IF available["mistral"]
          THEN Generated("mistral", "text", raw, MistralGenerateResponse(TRUE, FALSE, raw))
          ELSE Generated("mistral", "not_called", << >>,
                         MistralGenerateResponse(FALSE, FALSE, << >>))
    /\ UNCHANGED <<available, notLLMVars>>

\* MistralManager.generate_response when client.chat raises.
MistralCompletionRaises ==
    /\ available["mistral"]
    /\ llm_last' = Generated("mistral", "raised", << >>,
                             MistralGenerateResponse(TRUE, TRUE, << >>))
    /\ UNCHANGED <<available, notLLMVars>>

NextLLM ==
    \/ \E raw \in RawTexts : ParseResponse(raw)
    \/ \E raw \in RawTexts : GroqGenerate(raw)
    \/ GroqCompletionRaises
    \/ \E raw \in RawTexts : MistralGenerate(raw)
    \/ MistralCompletionRaises

SpecLLM == InitLLM /\ [][NextLLM]_vars

\* ---- the pipeline's calls ----

\* What the providers can do during a search.  The choices that the call
\* never comes to are left at FALSE and the empty text: the reranker is asked
\* only if reranking is on, chunks were found and the reranker is available;
\* the LLM is asked only if the manager the prompt goes to is available.
Envs(reranker_asked, llm_asked) ==
    LET vector_search_and_rerank ==
            {<<TRUE, FALSE>>} \cup
                {<<FALSE, r>> : r \in IF reranker_asked THEN BOOLEAN ELSE {FALSE}}
        completions ==
            IF llm_asked
            THEN {<<TRUE, << >> >>} \cup {<<FALSE, raw>> : raw \in SearchRaws}
            ELSE {<<FALSE, << >> >>}
    IN {Env(TRUE, FALSE, FALSE, FALSE, << >>)}
           \cup {Env(FALSE, sr[1], sr[2], c[1], c[2]) :
                   sr \in vector_search_and_rerank, c \in completions}

Collections == {{}, Points, ManyPoints}

InitSearch ==
    /\ InitIngest
    /\ available \in [Managers -> BOOLEAN]
    /\ llm_last = NoCall
    /\ collection \in Collections
    /\ response = NoResponse
    /\ search_log = NoSearch
    /\ similar = NoSimilar
    /\ searches = 0
    /\ NoProcessor
    /\ NoClients
    /\ NoStore

notSearchVars == <<ingestVars, llmVars, chunkVars, storeVars, clientVars>>

\* The record of a search.
SearchLog(doc_ids, llm_provider, raised, dispatched, completion, search_results, chunks,
          limit, use_reranking, search_limit, reranks) ==
    [op |-> "search", doc_ids |-> doc_ids, llm_provider |-> llm_provider,
     raised |-> raised, dispatched |-> dispatched, completion |-> completion,
     completions |-> IF completion = "not_called" THEN 0 ELSE 1,
     search_results |-> search_results, chunks |-> chunks,
     limit |-> limit, use_reranking |-> use_reranking, search_limit |-> search_limit,
     reranks |-> reranks, context |-> BuildContext(chunks)]

\* Line 112: encode_single raises; the except branch answers.
SearchEmbeddingFails(doc_ids, limit, use_reranking, llm_provider) ==
    /\ response' = SearchFailure("RuntimeError")
    /\ search_log' = SearchLog(doc_ids, llm_provider, {"embedding"}, "none", "not_called",
                               << >>, << >>, limit, use_reranking, 0, FALSE)

\* Lines 114-194, and the except branch for what they raise.  Each step's
\* value is bound once, in the order the code computes it.
SearchFromVectorSearch(doc_ids, limit, use_reranking, llm_provider, env) ==
    \E search_results \in
          {SearchSimilar(collection, SearchLimit(limit, use_reranking),
                         doc_ids, env.search_raises)} :
    \E found \in {[i \in 1..Len(search_results) |-> Chunk(search_results[i])]} :
    \E reranks \in {use_reranking /\ found # << >> /\ available["reranker"]} :
    \E chunks \in
          {IF reranks
           THEN Take(Reranked(found, env.rerank_raises), RerankLimit(limit))
           ELSE found} :
    \E dispatched \in {Dispatch(llm_provider, available["groq"])} :
    \E completion \in
          {IF ~available[dispatched] THEN "not_called"
           ELSE IF env.llm_raises THEN "raised" ELSE "text"} :
    \E generated \in
          {IF dispatched = "groq"
           THEN BaseGenerateResponse(available["groq"], env.llm_raises, env.raw)
           ELSE MistralGenerateResponse(available["mistral"], env.llm_raises, env.raw)} :
    \E parse_raised \in
          {/\ completion = "text"
           /\ IF dispatched = "groq"
              THEN ParseAndValidateResponse(Strip(env.raw)).exc # "none"
              ELSE JsonLoads(MistralUnfence(Strip(env.raw))).value.py = "int"} :
    \E raised \in
          {{step \in {"vector_search", "rerank", "llm", "parsing"} :
               \/ step = "vector_search" /\ env.search_raises
               \/ step = "rerank" /\ reranks /\ env.rerank_raises
               \/ step = "llm" /\ completion = "raised"
               \/ step = "parsing" /\ parse_raised}} :
        /\ response' =
              IF generated.py # "dict"
              THEN SearchFailure("AttributeError")
              ELSE RAGResponse(generated.answer, generated.citations, generated.claims,
                               Sources(generated.citations, chunks), "0.8", TRUE, NoMessage)
        /\ search_log' = SearchLog(doc_ids, llm_provider, raised, dispatched, completion,
                                   search_results, chunks, limit, use_reranking,
                                   SearchLimit(limit, use_reranking), reranks)

\* One call of RAGPipeline.search.
Search(doc_ids, limit_arg, use_reranking, llm_provider, env) ==
    /\ searches < MaxSearches
    /\ searches' = searches + 1
    /\ IF env.embed_raises
       THEN SearchEmbeddingFails(doc_ids,
                                 IF limit_arg = 0 THEN DEFAULT_TOP_K ELSE limit_arg,
                                 use_reranking, llm_provider)
       ELSE SearchFromVectorSearch(doc_ids,
                                   IF limit_arg = 0 THEN DEFAULT_TOP_K ELSE limit_arg,
                                   use_reranking, llm_provider, env)
    /\ UNCHANGED <<collection, similar, notSearchVars>>

\* RAGResponse.error(error_message)
BuildError(error_message) ==
    /\ response' = RAGResponse_error(error_message)
    /\ search_log' = [NoSearch EXCEPT !.op = "error"]
    /\ UNCHANGED <<collection, similar, searches, notSearchVars>>

\* RAGResponse.empty()
BuildEmpty ==
    /\ response' = RAGResponse_empty
    /\ search_log' = [NoSearch EXCEPT !.op = "empty"]
    /\ UNCHANGED <<collection, similar, searches, notSearchVars>>

NextSearch ==
    \/ \E doc_ids \in SearchDocIdArgs, limit \in LimitArgs, use_reranking \in BOOLEAN,
          llm_provider \in ProviderArgs :
          \E env \in Envs(use_reranking /\ collection # {} /\ available["reranker"],
                          available[Dispatch(llm_provider, available["groq"])]) :
              Search(doc_ids, limit, use_reranking, llm_provider, env)
    \/ \E error_message \in {"Pipeline non initialisé"} : BuildError(error_message)
    \/ BuildEmpty

SpecSearch == InitSearch /\ [][NextSearch]_vars

\* ---- direct calls of search_similar ----

InitSimilar ==
    /\ InitIngest
    /\ available = [m \in Managers |-> TRUE]
    /\ llm_last = NoCall
    /\ collection \in Collections
    /\ response = NoResponse
    /\ search_log = NoSearch
    /\ similar = NoSimilar
    /\ searches = 0
    /\ NoProcessor
    /\ NoClients
    /\ NoStore

\* QdrantManager.search_similar(query_embedding, limit, doc_ids); raises says
\* whether client.search raised.
SearchSimilarCall(limit, doc_ids, raises) ==
    /\ similar' = [op |-> "search_similar", doc_ids |-> doc_ids, limit |-> limit,
                   raised |-> raises,
                   results |-> SearchSimilar(collection, limit, doc_ids, raises)]
    /\ UNCHANGED <<collection, response, search_log, searches, notSearchVars>>

NextSimilar ==
    \E limit \in SimilarLimitArgs, doc_ids \in DocIdArgs, raises \in BOOLEAN :
        SearchSimilarCall(limit, doc_ids, raises)

SpecSimilar == InitSimilar /\ [][NextSimilar]_vars

(***************************************************************************)
(* Part IV, the steps of DocumentProcessor.process_document                *)
(***************************************************************************)

notChunkVars == <<ingestVars, llmVars, searchVars, storeVars, clientVars>>

\* The text of the page the call is at.
PageText == proc.pages_content[proc.page]

\* The call moves to the first page >= p that has text, or returns all_chunks.
ToPage(p, all_chunks, windows) ==
    [proc EXCEPT !.pc = IF NextPage(proc.pages_content, p) = 0 THEN "done" ELSE "page",
                 !.page = NextPage(proc.pages_content, p),
                 !.start = 0, !.chunk_num = 0, !.chunks = << >>,
                 !.all_chunks = all_chunks, !.windows = windows]

\* The slice text[start:end] a chunk of the page was made from.
Window(page, start, end) == [page |-> page, start |-> start, end |-> end]

\* process_document(file_path) up to its page loop (lines 132-148); a suffix
\* that is neither .pdf nor .txt returns [] at once.
ProcessDocumentBegin(self, doc) ==
    /\ proc.pc = "idle"
    /\ \E pages_content \in {PagesContent(doc)} :
         proc' = [proc EXCEPT !.pc = IF NextPage(pages_content, 1) = 0 THEN "done" ELSE "page",
                              !.self = self, !.doc = doc,
                              !.pages_content = pages_content,
                              !.page = NextPage(pages_content, 1)]
    /\ UNCHANGED notChunkVars

\* create_chunks for a text of at most chunk_size characters (lines 81-91).
CreateSingleChunk ==
    /\ proc.pc = "page"
    /\ PageText.len <= proc.self.chunk_size
    /\ \E chunk \in {DocumentChunk_create(PageText, 0, PageText.len, proc.doc.stem, proc.page,
                                          1, proc.doc.path, CalculateFileHash(proc.doc))} :
         proc' = ToPage(proc.page + 1, Append(proc.all_chunks, chunk),
                        Append(proc.windows, Window(proc.page, 0, PageText.len)))
    /\ UNCHANGED notChunkVars

\* create_chunks enters its loop (lines 94-95).
EnterChunkLoop ==
    /\ proc.pc = "page"
    /\ PageText.len > proc.self.chunk_size
    /\ proc' = [proc EXCEPT !.pc = "loop", !.start = 0, !.chunk_num = 1, !.chunks = << >>]
    /\ UNCHANGED notChunkVars

\* The chunk the pass of the loop at proc.start appends (lines 98-116).
PassEnd == ChunkEnd(proc.self, PageText, proc.start)

PassChunk ==
    DocumentChunk_create(PageText, proc.start, PassEnd, proc.doc.stem, proc.page,
                         proc.chunk_num, proc.doc.path, CalculateFileHash(proc.doc))

\* One pass of the loop (lines 97-120) that is not the last allowed one.
ChunkLoopStep ==
    /\ proc.pc = "loop"
    /\ proc.start < PageText.len
    /\ ~BreakAfter(proc.chunk_num + 1)
    /\ \E end \in {PassEnd} : \E chunk \in {PassChunk} :
         proc' = [proc EXCEPT !.start = NextStart(proc.self, PageText, end),
                              !.chunk_num = proc.chunk_num + 1,
                              !.chunks = Append(proc.chunks, chunk),
                              !.windows = Append(proc.windows,
                                                 Window(proc.page, proc.start, end))]
    /\ UNCHANGED notChunkVars

\* The pass after which chunk_num exceeds 1000: the break of line 125 ends
\* create_chunks whatever is left of the text.
ChunkLoopBreak ==
    /\ proc.pc = "loop"
    /\ proc.start < PageText.len
    /\ BreakAfter(proc.chunk_num + 1)
    /\ \E end \in {PassEnd} : \E chunk \in {PassChunk} :
         proc' = ToPage(proc.page + 1, proc.all_chunks \o Append(proc.chunks, chunk),
                        Append(proc.windows, Window(proc.page, proc.start, end)))
    /\ UNCHANGED notChunkVars

\* The loop condition fails: create_chunks returns and process_document
\* extends all_chunks (lines 127-128 and 154).
ChunkLoopEnd ==
    /\ proc.pc = "loop"
    /\ ~(proc.start < PageText.len)
    /\ proc' = ToPage(proc.page + 1, proc.all_chunks \o proc.chunks, proc.windows)
    /\ UNCHANGED notChunkVars

NextChunks ==
    \/ \E run \in Runs : ProcessDocumentBegin(run.self, run.doc)
    \/ CreateSingleChunk
    \/ EnterChunkLoop
    \/ ChunkLoopStep
    \/ ChunkLoopBreak
    \/ ChunkLoopEnd

(***************************************************************************)
(* Part V, the public operations of RAGPipeline                            *)
(***************************************************************************)

notStoreVars == <<ingestVars, llmVars, searchVars, chunkVars, clientVars>>

\* The points an earlier process of the pipeline left for scan.pdf: the ids
\* come from that process's hash().
EarlierPoints ==
    {PointStruct([s \in ChunkIds |-> IF s[2] = 1 THEN 1 ELSE 0 - 1],
                 WithEmbeddings(ProcessDocument(PipelineProcessor, d))[i]) :
        d \in {e \in Library : e.path = "scan.pdf"}, i \in 1..2}

\* The chunk lists store_chunks is called with directly: none, chunks that
\* never got an embedding, embedded chunks, and a list of both kinds.
ChunkLists ==
    LET memo == UNION {{ProcessDocument(PipelineProcessor, d)} :
                         d \in {e \in Library : e.path = "memo.TXT"}}
        scan == UNION {{ProcessDocument(PipelineProcessor, d)} :
                         d \in {e \in Library : e.path = "scan.pdf"}}
    IN  {<< >>}
        \cup memo
        \cup {WithEmbeddings(c) : c \in scan}
        \cup {<<WithEmbeddings(c)[1], c[2]>> : c \in scan}

\* All the chunks have a point of theirs in the collection q, under the hash h.
Persisted(q, h, chunks) ==
    \A i \in 1..Len(chunks) :
        /\ h[chunks[i].chunk_id] # NotHashed
        /\ PointStruct(h, chunks[i]) \in q.points

\* client_raised: the call of the Qdrant client the operation makes raised.
Outcome(op, doc, result, raised, chunks, stored, client_raised) ==
    [op |-> op, doc |-> doc, result |-> result, raised |-> raised, chunks |-> chunks,
     stored |-> stored, client_raised |-> client_raised, before |-> qdrant]

\* str(True) / str(False)
BoolStr(b) == IF b THEN "True" ELSE "False"

\* client.upsert was reached and raised.
UpsertRaised(q, h, chunks, upsert_raises) ==
    /\ ValidPoints(h, chunks) # << >>
    /\ upsert_raises \/ ~q.exists

\* The values a caller passes as doc_id with the path of doc: the stem of the
\* path, as RAGCLI.ingest_command does without --doc-id, or a name of its own.
IngestDocIdArgs(doc) == {doc.stem, "handbook"}

\* ingest_document(doc_path, doc_id).
\* embed_raises: encode_texts raises; upsert_raises: client.upsert raises.
IngestDocument(doc, doc_id, embed_raises, upsert_raises) ==
    /\ calls < MaxCalls
    /\ calls' = calls + 1
    /\ \E chunks \in {ProcessDocument(PipelineProcessor, doc)} :
         IF embed_raises
         THEN /\ outcome' = Outcome("ingest_document", doc.path,
                                    ErrorResultOf(doc_id, "encode_texts"), "none",
                                    chunks, "not_called", FALSE)
              /\ UNCHANGED <<qdrant, chunk_id_hash>>
         ELSE \E embedded \in {WithEmbeddings(chunks)} :
              \E h \in HashesAfter(chunk_id_hash, embedded) :
              \E stored \in {StoreChunks(qdrant, h, embedded, upsert_raises)} :
                /\ qdrant' = stored.q
                /\ chunk_id_hash' = h
                /\ outcome' = Outcome("ingest_document", doc.path,
                                      SuccessResult(doc_id, Len(chunks),
                                                    PagesProcessed(chunks)),
                                      "none", embedded, BoolStr(stored.returns),
                                      UpsertRaised(qdrant, h, embedded, upsert_raises))
    /\ UNCHANGED notStoreVars

\* A direct qdrant_manager.store_chunks(chunks).
StoreChunksCall(chunks, upsert_raises) ==
    /\ calls < MaxCalls
    /\ calls' = calls + 1
    /\ \E h \in HashesAfter(chunk_id_hash, chunks) :
       \E stored \in {StoreChunks(qdrant, h, chunks, upsert_raises)} :
         /\ qdrant' = stored.q
         /\ chunk_id_hash' = h
         /\ outcome' = Outcome("store_chunks", "", Bool(stored.returns), "none", chunks,
                               BoolStr(stored.returns),
                               UpsertRaised(qdrant, h, chunks, upsert_raises))
    /\ UNCHANGED notStoreVars

\* clear_collection(): delete_collection, then _ensure_collection; either may
\* raise, and the exception is turned into False.
ClearCollection(delete_raises, ensure_raises) ==
    /\ calls < MaxCalls
    /\ calls' = calls + 1
    /\ IF delete_raises
       THEN /\ qdrant' = qdrant
            /\ outcome' = Outcome("clear_collection", "", Bool(FALSE), "none", << >>,
                                  "not_called", FALSE)
       ELSE \E deleted \in {DeleteCollection(qdrant)} :
              IF ensure_raises
              THEN /\ qdrant' = deleted
                   /\ outcome' = Outcome("clear_collection", "", Bool(FALSE), "none", << >>,
                                         "not_called", FALSE)
              ELSE /\ qdrant' = EnsureCollection(deleted)
                   /\ outcome' = Outcome("clear_collection", "", Bool(TRUE), "none", << >>,
                                         "not_called", FALSE)
    /\ UNCHANGED <<chunk_id_hash, notStoreVars>>

\* list_documents()
ListDocumentsCall(scroll_raises) ==
    /\ calls < MaxCalls
    /\ calls' = calls + 1
    /\ outcome' = Outcome("list_documents", "",
                          [type |-> "list", items |-> ListDocuments(qdrant, scroll_raises)],
                          "none", << >>, "not_called", scroll_raises \/ ~qdrant.exists)
    /\ UNCHANGED <<qdrant, chunk_id_hash, notStoreVars>>

\* get_collection_info()
GetCollectionInfoCall(get_raises) ==
    /\ calls < MaxCalls
    /\ calls' = calls + 1
    /\ outcome' = Outcome("get_collection_info", "", GetCollectionInfo(qdrant, get_raises),
                          "none", << >>, "not_called", get_raises \/ ~qdrant.exists)
    /\ UNCHANGED <<qdrant, chunk_id_hash, notStoreVars>>

\* delete_document(doc_id): QdrantManager defines no delete_document, so the
\* attribute lookup of line 252 raises AttributeError, which nothing catches.
DeleteDocument(doc_id) ==
    /\ calls < MaxCalls
    /\ calls' = calls + 1
    /\ outcome' = Outcome("delete_document", doc_id, Exception("AttributeError"),
                          "AttributeError", << >>, "not_called", FALSE)
    /\ UNCHANGED <<qdrant, chunk_id_hash, notStoreVars>>

\* health_check(): the is_available() of the five components; that of the
\* Qdrant manager is False when get_collections raises.
HealthCheck(client_raises) ==
    /\ calls < MaxCalls
    /\ calls' = calls + 1
    /\ outcome' = Outcome("health_check", "",
                          [type |-> "dict",
                           keys |-> {"embedding_manager", "reranker_manager",
                                     "qdrant_manager", "mistral_manager", "groq_manager"},
                           embedding_manager |-> TRUE,
                           reranker_manager |-> available["reranker"],
                           qdrant_manager |-> ~client_raises,
                           mistral_manager |-> available["mistral"],
                           groq_manager |-> available["groq"]],
                          "none", << >>, "not_called", FALSE)
    /\ UNCHANGED <<qdrant, chunk_id_hash, notStoreVars>>

\* The pipeline once constructed: _connect has ensured the collection, which
\* is new or holds what an earlier process stored.
InitStore ==
    /\ InitIngest
    /\ available = [m \in Managers |-> TRUE]
    /\ llm_last = NoCall
    /\ NoPipeline
    /\ NoProcessor
    /\ NoClients
    /\ qdrant \in {EnsureCollection(NoCollection),
                   [EnsureCollection(NoCollection) EXCEPT !.points = EarlierPoints]}
    /\ chunk_id_hash = [s \in ChunkIds |-> NotHashed]
    /\ outcome = NoOutcome
    /\ calls = 0

NextStore ==
    \/ \E doc \in Library, embed_raises \in BOOLEAN, upsert_raises \in BOOLEAN :
         \E doc_id \in IngestDocIdArgs(doc) :
             IngestDocument(doc, doc_id, embed_raises, upsert_raises)
    \/ \E chunks \in ChunkLists, upsert_raises \in BOOLEAN :
         StoreChunksCall(chunks, upsert_raises)
    \/ \E delete_raises \in BOOLEAN, ensure_raises \in BOOLEAN :
         ClearCollection(delete_raises, ensure_raises)
    \/ \E scroll_raises \in BOOLEAN : ListDocumentsCall(scroll_raises)
    \/ \E get_raises \in BOOLEAN : GetCollectionInfoCall(get_raises)
    \/ \E doc_id \in {"scan"} : DeleteDocument(doc_id)
    \/ \E client_raises \in BOOLEAN : HealthCheck(client_raises)

SpecStore == InitStore /\ [][NextStore]_vars

\* The processor at the start of a process_document call.
InitChunks ==
    /\ InitIngest
    /\ NoManagers
    /\ NoProcessor
    /\ NoClients
    /\ NoStore

SpecChunks == InitChunks /\ [][NextChunks]_vars

\* A call of process_document runs on one thread and is not suspended for
\* ever: a step that can be taken is taken.
SpecChunksFair == InitChunks /\ [][NextChunks]_vars /\ WF_vars(NextChunks)

\* ---- Part VI : the specification ----

InitClients ==
    /\ InitIngest
    /\ NoManagers
    /\ NoProcessor
    /\ NoStore
    /\ NoClients

NextClients ==
    \/ \E t \in Threads : GetGlobalClientLock(t)
    \/ \E t \in Threads : GetGlobalClientCreate(t)
    \/ \E t \in Threads : GetGlobalClientReturn(t)
    \/ \E t \in Threads : CloseGlobalClient(t)
    \/ \E t \in Threads : QdrantManagerConnect(t)
    \/ \E t \in Threads : QdrantManagerConnectFails(t)

SpecClients == InitClients /\ [][NextClients]_vars

\* ---- properties of Part II ----

Tokens(raw) == {raw[i] : i \in 1..Len(raw)}

\* The completion is one JSON object with the three keys whose answer is a
\* string holding a negative-finding phrase.
IsNoInfoJson(raw) ==
    /\ JsonLoads(raw).exc = "none"
    /\ JsonLoads(raw).value.py = "dict"
    /\ HasRequiredKeys(JsonLoads(raw).value)
    /\ JsonLoads(raw).value.answer.t = "str"
    /\ HasNoInfoPhrase(Lower(JsonLoads(raw).value.answer.v))

\* C4: whichever manager (Groq or Mistral) produced the result, a completion
\* whose answer text holds a negative-finding phrase is returned by
\* generate_response with citations == [] and claims == [].
C4_CitationGatingEveryManager ==
    (llm_last.op \in {"groq", "mistral"} /\ llm_last.completion = "text"
        /\ IsNoInfoJson(llm_last.raw)) =>
        /\ llm_last.value.citations = List(<< >>)
        /\ llm_last.value.claims = List(<< >>)

\* The kinds of malformed output.
TruncatedJson(raw) == LB \in Tokens(raw) /\ RB \notin Tokens(raw)

ProseWrappedJson(raw) == {LB, RB, TXT} \subseteq Tokens(raw)

MissingKey(raw) ==
    \E b \in Tokens(raw) \cap Bodies :
        Absent \in {BodyOf(b).answer, BodyOf(b).citations, BodyOf(b).claims}

UnexpectedType(raw) ==
    \E b \in Tokens(raw) \cap Bodies :
        \/ BodyOf(b).answer.t \notin {"str", "absent"}
        \/ BodyOf(b).citations.t \notin {"list", "absent"}
        \/ BodyOf(b).claims.t \notin {"list", "absent"}

Malformed(raw) ==
    TruncatedJson(raw) \/ ProseWrappedJson(raw) \/ MissingKey(raw) \/ UnexpectedType(raw)

\* C5: fed malformed output (truncated JSON, prose-wrapped JSON, JSON missing
\* a key, JSON with a value of an unexpected type), the parser raises nothing
\* and returns answer == the cleaned raw text, citations == [] and
\* claims == [{text: cleaned raw text, citations: []}].
C5_FallbackParsingNeverRaises ==
    (llm_last.op = "parse" /\ Malformed(llm_last.raw)) =>
        /\ llm_last.exc = "none"
        /\ llm_last.value = Fallback(Strip(ReplaceNewlines(llm_last.raw)))

\* ---- properties of Part III ----

\* C6: every call of search returns a RAGResponse, and whenever the
\* embedding, vector-search, rerank, LLM or parsing step raised, that response
\* is a failure response: success is false and error_message carries the
\* message.
C6_ExceptionsBecomeFailureResponses ==
    (search_log.op = "search" /\ search_log.raised # {}) =>
        /\ response.success = FALSE
        /\ response.error_message # NoMessage

\* C7: every RAGResponse that search returns or that RAGResponse.error /
\* RAGResponse.empty build has empty citations and sources if success is
\* false, and has sources only if it has citations.
C7_ResponseInvariants ==
    search_log.op # "none" =>
        /\ response.success = FALSE =>
              response.citations = List(<< >>) /\ response.sources = << >>
        /\ response.sources # << >> => response.citations.v # << >>

\* C7 at work: a search found chunks, the response came back without
\* citations, and no source was attached.
C7_Witness ==
    /\ search_log.op = "search"
    /\ response.success
    /\ search_log.chunks # << >>
    /\ response.citations = List(<< >>)
    /\ response.sources = << >>

\* The backend that search handed the prompt to failed.
LLMFailed ==
    /\ search_log.op = "search"
    /\ search_log.dispatched # "none"
    /\ search_log.completion = "raised" \/ ~available[search_log.dispatched]

\* C8: when the dispatched LLM backend is unavailable or its completion
\* call raises, search returns success = false with the error in
\* error_message, having asked for at most one completion.
C8_LLMFailureSurfaced ==
    LLMFailed =>
        /\ response.success = FALSE
        /\ response.error_message # NoMessage
        /\ search_log.completions <= 1

DefaultProvider == "mistral"

\* C9 as stated: whichever provider is requested, if its manager reports
\* unavailable the prompt goes to the default provider's manager instead of
\* to the unavailable one, which therefore never answers the query.
C9_EveryProviderFallsBack ==
    (search_log.op = "search" /\ search_log.dispatched # "none"
        /\ search_log.llm_provider \in {"groq", "mistral"}
        /\ ~available[search_log.llm_provider]) =>
        /\ search_log.dispatched = DefaultProvider
        /\ search_log.dispatched # search_log.llm_provider

\* C9 amended: only a request for groq falls back.  An unavailable groq
\* sends the prompt to the Mistral manager, an available groq gets it, and a
\* request for mistral or any other name goes to the Mistral manager whether
\* that manager is available or not.
C9_GroqFallsBackToMistral ==
    (search_log.op = "search" /\ search_log.dispatched # "none") =>
        /\ (search_log.llm_provider = "groq" /\ ~available["groq"]) =>
              search_log.dispatched = DefaultProvider
        /\ (search_log.llm_provider = "groq" /\ available["groq"]) =>
              search_log.dispatched = "groq"
        /\ search_log.llm_provider # "groq" => search_log.dispatched = DefaultProvider

\* C9 at work: groq was requested while unavailable and Mistral completed
\* the prompt.
C9_Witness ==
    /\ search_log.op = "search"
    /\ search_log.llm_provider = "groq"
    /\ ~available["groq"]
    /\ search_log.dispatched = "mistral"
    /\ search_log.completion = "text"
    /\ response.success

\* The doc_id values of the results of the most recent direct call.
ResultDocIds == {similar.results[i].doc_id : i \in 1..Len(similar.results)}

\* The str a doc_ids argument stands for.
StrValue(x) == IF x.v = << >> THEN "" ELSE x.v[1]

\* C10 as stated: for every doc_ids a caller passes, the empty string and
\* the empty list included, a str filter returns only chunks of that doc_id
\* and a list filter only chunks whose doc_id is in the list.
C10_FilterHoldsForEveryValue ==
    similar.op = "search_similar" =>
        /\ similar.doc_ids.t = "str" => ResultDocIds \subseteq {StrValue(similar.doc_ids)}
        /\ similar.doc_ids.t = "list" =>
              ResultDocIds \subseteq {similar.doc_ids.v[i] : i \in 1..Len(similar.doc_ids.v)}

\* C10 amended: a non-empty str filter returns only chunks of that doc_id, a
\* non-empty list filter only chunks whose doc_id is in the list; the empty
\* string, the empty list and None all mean no filter: the call returns the
\* limit nearest chunks of the whole collection.
C10_NonEmptyFilterHolds ==
    similar.op = "search_similar" =>
        /\ (similar.doc_ids.t = "str" /\ similar.doc_ids.v # << >>) =>
              ResultDocIds \subseteq {StrValue(similar.doc_ids)}
        /\ (similar.doc_ids.t = "list" /\ similar.doc_ids.v # << >>) =>
              ResultDocIds \subseteq {similar.doc_ids.v[i] : i \in 1..Len(similar.doc_ids.v)}
        /\ (similar.doc_ids.v = << >> /\ ~similar.raised) =>
              similar.results = Take(ByScore(collection), similar.limit)

\* C10 at work: the empty string was passed as the filter and chunks of two
\* documents came back.
C10_Witness ==
    /\ similar.op = "search_similar"
    /\ similar.doc_ids = Str(<< >>)
    /\ {"d1", "d2"} \subseteq ResultDocIds

\* ---- properties of Part V ----

\* C11: when the upsert of store_chunks fails during ingest_document, the
\* result has success = false; a result with success = true means that every
\* chunk of the document has its point in the collection.
C11_UpsertFailureSurfaced ==
    outcome.op = "ingest_document" =>
        /\ outcome.client_raised => ~outcome.result.success
        /\ outcome.result.success => Persisted(qdrant, chunk_id_hash, outcome.chunks)

\* The file of the most recent ingest_document.
IngestedDoc == CHOOSE d \in Library : d.path = outcome.doc

\* C12: ingest_document on a missing file or on a file of an unsupported type
\* returns a failed result.
C12_InputErrorsRejected ==
    (outcome.op = "ingest_document" /\ (~IngestedDoc.exists \/ ~Supported(IngestedDoc)))
        => ~outcome.result.success

\* C13: no public operation raises past the pipeline; delete_document returns
\* a bool.
C13_NoExceptionCrossesPipeline ==
    /\ outcome.raised = "none"
    /\ outcome.op = "delete_document" => outcome.result.type = "bool"

\* C16: store_chunks returns true only if every chunk of the call has its
\* point in the collection, one point per id; when it returns false the
\* collection is what it was before the call.
C16_StoreChunksAllOrNothing ==
    outcome.op = "store_chunks" =>
        /\ outcome.result.value => Persisted(qdrant, chunk_id_hash, outcome.chunks)
        /\ ~outcome.result.value => qdrant = outcome.before
        /\ \A p, r \in qdrant.points : p.id = r.id => p = r

\* C17: after clear_collection returns true the collection exists with the
\* configured size and the cosine distance, which are those it had before if
\* it existed, and holds no point.
C17_ClearLeavesEmptyCollection ==
    (outcome.op = "clear_collection" /\ outcome.result.value) =>
        /\ qdrant.exists
        /\ qdrant.points = {}
        /\ qdrant.size = VECTOR_SIZE /\ qdrant.distance = COSINE
        /\ outcome.before.exists =>
              /\ qdrant.size = outcome.before.size
              /\ qdrant.distance = outcome.before.distance

\* C17, its case: a clear_collection that returned true on a collection that
\* held points.
C17_Witness ==
    /\ outcome.op = "clear_collection" /\ outcome.result.value
    /\ outcome.before.points # {}
    /\ qdrant.exists /\ qdrant.points = {}

\* The doc ids of the stored points.
StoredDocIds == {p.payload.doc_id : p \in qdrant.points}

\* C18: list_documents returns one DocumentInfo per doc id of the stored
\* points, with the number of points and of distinct pages of that doc id, in
\* ascending order of doc id.
C18_ListDocumentsGroupsAllPoints ==
    (outcome.op = "list_documents" /\ ~outcome.client_raised) =>
        LET items == outcome.result.items
        IN  /\ {items[i].doc_id : i \in 1..Len(items)} = StoredDocIds
            /\ \A i, j \in 1..Len(items) :
                  i < j => DocIdRank(items[i].doc_id) < DocIdRank(items[j].doc_id)
            /\ \A i \in 1..Len(items) :
                  LET mine == {p \in qdrant.points : p.payload.doc_id = items[i].doc_id}
                  IN  /\ items[i].chunks_count = Cardinality(mine)
                      /\ items[i].pages_count = Cardinality({p.payload.page : p \in mine})

\* The payload schema.
PayloadFields ==
    {"content", "doc_id", "page", "chunk_id", "file_path", "file_hash", "chunk_hash",
     "created_at"}

\* C19: every point persisted by ingest_document or store_chunks carries all
\* the fields of the payload schema.
C19_PayloadSchema ==
    outcome.op \in {"ingest_document", "store_chunks"} =>
        \A p \in qdrant.points \ outcome.before.points :
            PayloadFields \subseteq DOMAIN p.payload

\* ---- properties of Part I, continued ----

\* The fingerprints the points of S carry.
StoredHashes(S) == {p.chunk_hash : p \in S}

\* C20: a fingerprint enters the dedup set only in a step that leaves a point
\* carrying it in the store (its upsert succeeded, or it was read from the
\* store at start-up), and a call that ends on a failed embedding or upsert
\* adds nothing to the set.
C20_MarkedOnlyAfterUpsert ==
    [][/\ processed_hashes' \subseteq processed_hashes \cup StoredHashes(store')
       /\ (\E t \in Threads : pc[t] = "loop" /\ pc'[t] = "idle"
                                /\ returned'.status = "error")
             => processed_hashes' = processed_hashes]_vars

\* C20, its case: a call ended on a failure after an earlier chunk was stored;
\* the stored chunk is marked, the failed one is not.
C20_Witness ==
    /\ returned.status = "error" /\ returned.file = "rules.pdf"
    /\ returned.upserts >= 1
    /\ processed_hashes # {}
    /\ \E pos \in AllPos("rules.pdf") : ChunkHashAt("rules.pdf", pos) \notin processed_hashes

\* The threads inside the with block of process_document_incremental.
InBody == {t \in Threads : pc[t] = "loop"}

\* C21: at most one thread at a time is inside the body of
\* process_document_incremental, that thread is the holder of the lock, and
\* the lock is held by no thread that has left the body (on success, skip
\* or error).
C21_OneIngestionAtATime ==
    /\ Cardinality(InBody) <= 1
    /\ \A t \in Threads : pc[t] = "loop" <=> ingest_lock = t
    /\ ingest_lock \in Threads \cup {NoThread}

\* C21, its case: a call ended on an error and released the lock, and the
\* other thread then entered the body and upserted a chunk.
C21_Witness ==
    /\ returned.status = "error"
    /\ \E t \in Threads :
         /\ ingest_lock = t
         /\ call[t].upserts > 0
         /\ \A u \in Threads \ {t} : pc[u] = "idle"

\* ---- properties of Part IV ----

\* The windows of page p, in the order of their chunks.
WindowsOf(p) ==
    LET OfPage(w) == w.page = p IN SelectSeq(proc.windows, OfPage)

\* The chunks of page p.
ChunksOf(p) ==
    LET OfPage(c) == c.page = p IN SelectSeq(proc.all_chunks, OfPage)

\* The pages longer than a chunk.
LongPages == {p \in DOMAIN proc.pages_content :
                 proc.pages_content[p].len > proc.self.chunk_size}

\* Consecutive windows share exactly chunk_overlap characters.
OverlapExact(ws) ==
    \A i \in 1..(Len(ws) - 1) : ws[i].end - ws[i + 1].start = proc.self.chunk_overlap

\* The windows start at the first character and leave no gap between them.
NoGap(ws) ==
    /\ Len(ws) > 0
    /\ ws[1].start = 0
    /\ \A i \in 1..(Len(ws) - 1) : ws[i + 1].start <= ws[i].end

\* The windows reach the end of the text.
ReachesEnd(ws, text) == Len(ws) > 0 /\ ws[Len(ws)].end = text.len

\* C14 as stated: for every page longer than the chunk size the windows
\* cover the whole text without gap and consecutive windows overlap by
\* exactly chunk_overlap characters.
C14_WindowsCoverWholeText ==
    proc.pc = "done" =>
        \A p \in LongPages :
            /\ NoGap(WindowsOf(p))
            /\ ReachesEnd(WindowsOf(p), proc.pages_content[p])
            /\ OverlapExact(WindowsOf(p))

\* C14 amended: the windows start at 0, leave no gap and overlap by exactly
\* chunk_overlap characters; they reach the end of the text unless the page
\* got 1000 chunks, the most create_chunks makes; every chunk holds its
\* window stripped of the whitespace around it.
C14_WindowsCoverUpToMaxChunks ==
    proc.pc = "done" =>
        \A p \in LongPages :
            /\ NoGap(WindowsOf(p))
            /\ OverlapExact(WindowsOf(p))
            /\ Len(WindowsOf(p)) <= MaxChunksPerPage
            /\ Len(WindowsOf(p)) < MaxChunksPerPage
                  => ReachesEnd(WindowsOf(p), proc.pages_content[p])
            /\ Len(ChunksOf(p)) = Len(WindowsOf(p))
            /\ \A i \in 1..Len(WindowsOf(p)) :
                  ChunksOf(p)[i].content =
                      StripSlice(proc.pages_content[p], WindowsOf(p)[i].start,
                                 WindowsOf(p)[i].end)

\* C14, its case: a page longer than the chunk size was chunked to its end,
\* one of its chunks cut back to a space.
C14_Witness ==
    /\ proc.pc = "done"
    /\ \E p \in LongPages :
         /\ ReachesEnd(WindowsOf(p), proc.pages_content[p])
         /\ \E i \in 1..(Len(WindowsOf(p)) - 1) :
               WindowsOf(p)[i].end - WindowsOf(p)[i].start < proc.self.chunk_size

\* The example of the specification was processed: 1800 then 300 characters,
\* chunk_size 500 and chunk_overlap 50.
ExampleDone ==
    /\ proc.pc = "done"
    /\ proc.doc \in ExampleDocuments
    /\ proc.self = DocumentProcessor(500, 50)

\* The offsets of the last fifth of the windows of 500 characters that start
\* every 450 characters: 401..499, 851..949 and 1301..1399.
LastFifths ==
    {p \in 0..1799 : \E k \in 0..2 : p - 450 * k < 500 /\ 5 * (p - 450 * k) > 4 * 500}

\* C15 as stated: the example gives 4 chunks with overlaps of 50 characters
\* for page 1 and 1 chunk for page 2, 5 in all, wherever its spaces are.
C15_ExampleAlwaysFiveChunks ==
    ExampleDone =>
        /\ Len(WindowsOf(1)) = 4
        /\ OverlapExact(WindowsOf(1))
        /\ Len(WindowsOf(2)) = 1
        /\ Len(proc.all_chunks) = 5

\* C15 amended: page 2 gives 1 chunk and the windows of page 1 overlap by 50
\* characters; page 1 gives 4 chunks (5 in all) when it has no space in the
\* last fifth of a window, and 4 or 5 chunks otherwise.
C15_ExampleFiveChunksWithoutCut ==
    ExampleDone =>
        /\ Len(WindowsOf(2)) = 1
        /\ OverlapExact(WindowsOf(1))
        /\ Len(WindowsOf(1)) \in {4, 5}
        /\ Len(proc.all_chunks) = Len(WindowsOf(1)) + 1
        /\ proc.doc.pages[1].spaces \cap LastFifths = {}
              => Len(WindowsOf(1)) = 4 /\ Len(proc.all_chunks) = 5

\* C15, its case: the example with spaces outside the last fifths gave its
\* 5 chunks.
C15_Witness ==
    /\ ExampleDone
    /\ proc.doc.pages[1].spaces # {}
    /\ proc.doc.pages[1].spaces \cap LastFifths = {}
    /\ Len(WindowsOf(1)) = 4
    /\ Len(proc.all_chunks) = 5

\* ---- properties of Part VI ----

\* The clients constructed by get_global_client and not closed since.
LiveGlobalClients == clients.global_made - Cardinality(clients.closed)

\* The consumers holding a client that has not been closed.
LiveConsumers ==
    {t \in Threads : /\ consumer[t].client # NoClient
                     /\ consumer[t].client.id \notin clients.closed}

\* C22: the client is constructed at most once (until it is closed), and all
\* the consumers of the process that hold a client hold the same instance.
C22_OneClientForAllConsumers ==
    /\ LiveGlobalClients <= 1
    /\ \A t, u \in LiveConsumers : consumer[t].client = consumer[u].client

\* ---- properties of Part III, continued ----

\* The chunks made of the results of the vector search, in its order.
Found == [i \in 1..Len(search_log.search_results) |-> Chunk(search_log.search_results[i])]

\* The elements of a list.
Range(s) == {s[i] : i \in 1..Len(s)}

\* The vector search of the most recent search was issued and answered.
VectorSearched ==
    /\ search_log.op = "search"
    /\ search_log.raised \cap {"embedding", "vector_search"} = {}

\* C23: the vector search is issued with limit K without reranking and 2K
\* with it; when the reranker is asked and scores the passages, the chunks
\* kept are the min(K, DEFAULT_RERANK_TOP_K) candidates of highest
\* cross-encoder score, in descending order of score, and the context lists
\* them in that order.
C23_RerankKeepsBestInOrder ==
    VectorSearched =>
        /\ search_log.search_limit =
              IF search_log.use_reranking THEN 2 * search_log.limit ELSE search_log.limit
        /\ search_log.search_results =
              ClientSearch(collection, SearchFilter(search_log.doc_ids),
                           search_log.search_limit)
        /\ (search_log.reranks /\ "rerank" \notin search_log.raised) =>
              LET chunks == search_log.chunks
                  n == Min(search_log.limit, DEFAULT_RERANK_TOP_K)
              IN /\ Len(chunks) = Min(n, Len(Found))
                 /\ Range(chunks) \subseteq Range(Found)
                 /\ \A i, j \in 1..Len(chunks) :
                       i < j => CrossEncoderScore(chunks[i].content)
                                   >= CrossEncoderScore(chunks[j].content)
                 /\ \A c \in Range(Found) \ Range(chunks), k \in Range(chunks) :
                       CrossEncoderScore(c.content) <= CrossEncoderScore(k.content)
        /\ search_log.context.none = (search_log.chunks = << >>)
        /\ Len(search_log.context.parts) = Len(search_log.chunks)
        /\ \A i \in 1..Len(search_log.chunks) :
              /\ search_log.context.parts[i].doc_id = search_log.chunks[i].doc_id
              /\ search_log.context.parts[i].page = search_log.chunks[i].page
              /\ search_log.context.parts[i].content = search_log.chunks[i].content

\* C23, its case: a search with the default limit 20 asked for 40 results,
\* got 12, and the reranker kept the 10 it scored highest, not the first 10.
C23_Witness ==
    /\ VectorSearched
    /\ search_log.use_reranking /\ search_log.search_limit = 2 * DEFAULT_TOP_K
    /\ search_log.reranks /\ "rerank" \notin search_log.raised
    /\ Len(Found) > DEFAULT_RERANK_TOP_K
    /\ Len(search_log.chunks) = DEFAULT_RERANK_TOP_K
    /\ search_log.chunks # Take(Found, DEFAULT_RERANK_TOP_K)
    /\ Len(search_log.context.parts) = DEFAULT_RERANK_TOP_K

\* Reranking was requested for chunks the vector search found, and the
\* reranker is unavailable or its scoring call failed.
RerankingFellBack ==
    /\ VectorSearched
    /\ search_log.use_reranking
    /\ Found # << >>
    /\ ~available["reranker"] \/ "rerank" \in search_log.raised

\* C24: if reranking is requested and the reranker is unavailable or its
\* scoring call fails, the search goes on to build the context and hand the
\* prompt to an LLM manager, and the chunks are the vector-search results in
\* their order: all of them without reranker, the first min(K,
\* DEFAULT_RERANK_TOP_K) after a failed scoring call.
C24_RerankFallbackKeepsOrder ==
    RerankingFellBack =>
        /\ search_log.chunks = Take(Found, Len(search_log.chunks))
        /\ ~available["reranker"] => search_log.chunks = Found
        /\ "rerank" \in search_log.raised =>
              Len(search_log.chunks) =
                  Min(Min(search_log.limit, DEFAULT_RERANK_TOP_K), Len(Found))
        /\ Len(search_log.context.parts) = Len(search_log.chunks)
        /\ search_log.dispatched # "none"

\* C24, its case: the scoring call failed on several chunks which the
\* cross-encoder would have put in another order, and the search answered.
C24_Witness ==
    /\ RerankingFellBack
    /\ search_log.raised = {"rerank"}
    /\ Len(search_log.chunks) >= 2
    /\ search_log.chunks # Take(SortByCrossEncoder(Range(Found)), Len(search_log.chunks))
    /\ response.success

\* C29: whatever the reranking flag and the reranker's availability, a
\* search with limit K puts at most K chunks in the context and at most K
\* entries in the sources of the response.
C29_AtMostLimitChunks ==
    search_log.op = "search" =>
        /\ Len(search_log.context.parts) <= search_log.limit
        /\ Len(response.sources) <= search_log.limit

\* ---- properties of Part I, error paths and order ----

\* The fingerprints of the chunks that the call with result r upserted.
UpsertedHashes(r) == {ChunkHashAt(r.file, r.upserted[i]) : i \in 1..Len(r.upserted)}

\* Thread t is about to embed and upsert the chunk at its cursor.
Processes(t) ==
    AtChunk(t) /\ ChunkHashAt(call[t].file, call[t].pos) \notin processed_hashes

\* C25: a call that ended on a failed embedding or upsert made no embedding
\* call after the failing one; the chunks it upserted before remain stored
\* and remain in the dedup set; and the next call on the file processes none
\* of them again.
C25_FailureKeepsEarlierChunks ==
    returned.status = "error" =>
        /\ returned.embed_calls = Len(returned.upserted) + 1
        /\ UpsertedHashes(returned) \subseteq processed_hashes
        /\ UpsertedHashes(returned) \subseteq StoredHashes(store)
        /\ \A t \in Threads :
              (Processes(t) /\ call[t].file = returned.file) =>
                  ChunkHashAt(call[t].file, call[t].pos) \notin UpsertedHashes(returned)

\* Cursor a is before cursor b: a lesser page, or the same page and a
\* lesser chunk index.
Before(a, b) == a[1] < b[1] \/ (a[1] = b[1] /\ a[2] < b[2])

\* The cursors of a list are in page-then-chunk-index order.
InOrder(s) == \A i, j \in 1..Len(s) : i < j => Before(s[i], s[j])

\* C26: the chunks a call has upserted so far were upserted in
\* page-then-chunk-index order, and the chunk the call is at comes after all
\* of them.
C26_UpsertsInPageChunkOrder ==
    /\ InOrder(returned.upserted)
    /\ \A t \in Threads :
          /\ InOrder(call[t].upserted)
          /\ AtChunk(t) =>
                \A i \in 1..Len(call[t].upserted) :
                    Before(call[t].upserted[i], call[t].pos)

\* C26, its case: a call upserted the two chunks of page 1 and then the chunk
\* of page 2, and returned.
C26_Witness ==
    /\ returned.status = "success"
    /\ returned.upserted = << <<1, 1>>, <<1, 2>>, <<2, 1>> >>

\* C30: on every exit path the returned chunks_added is the number of
\* points the call upserted, and on success chunks_added + chunks_skipped
\* is the number of chunks the splitter made of the file.
C30_ChunksAddedCountsUpserts ==
    HasReturned =>
        /\ returned.chunks_added = Len(returned.upserted)
        /\ returned.status = "success" =>
              returned.chunks_added + returned.chunks_skipped = NumChunks(returned.file)

\* ---- properties of Part V, continued ----

\* C28: after ingest_document(doc_path, doc_id) has returned success, every
\* point it stored carries the doc_id it was given, also when that differs
\* from the stem of the file.
C28_StoredChunksCarryDocIdArgument ==
    (outcome.op = "ingest_document" /\ outcome.result.success) =>
        \A p \in qdrant.points \ outcome.before.points :
            p.payload.doc_id = outcome.result.doc_id

\* ---- properties of Part IV, continued ----

\* C27: for every page text and every chunk_size / chunk_overlap
\* configuration, chunk_overlap >= chunk_size included, create_chunks never
\* holds more than 1000 chunks of a page, and the call returns.
C27_CreateChunksTerminates ==
    /\ [](/\ Len(proc.chunks) <= 1000
          /\ \A p \in DOMAIN proc.pages_content : Len(ChunksOf(p)) <= 1000)
    /\ <>(proc.pc = "done")

\* C27, its case: a processor whose chunk_overlap is not less than its
\* chunk_size has returned, with 1000 chunks for a page.
C27_Witness ==
    /\ proc.pc = "done"
    /\ proc.self.chunk_overlap >= proc.self.chunk_size
    /\ \E p \in DOMAIN proc.pages_content : Len(ChunksOf(p)) = 1000

====
